---- MODULE Spec2Model ----
(***************************************************************************)
(* Saga orchestrator over a non-transactional store: the coordinator       *)
(* (SimpleTransactionManager.execute), the worker                          *)
(* (SimpleTransactionConsumer.process), the distributed lock               *)
(* (DistributedLockService), the compensation engine (CompensationService) *)
(* and the dead-letter quarantine (DLQService).                            *)
(*                                                                         *)
(* Every await of the source that reaches the key-value service, the queue *)
(* or a user step function is one atomic step of the model; the code       *)
(* between two awaits runs together with the await that follows it.        *)
(***************************************************************************)
EXTENDS Integers, Sequences, FiniteSets, TLC

(***************************************************************************)
(* Bounds                                                                  *)
(***************************************************************************)
\* number of concurrent execute() calls; each enqueues at most one job
MaxReqs == 2
\* number of times the queue delivers one job to a worker
MaxAttempts == 2
\* number of worker crashes in one behaviour
MaxCrashes == 1
\* number of lock keys whose TTL runs out in one behaviour
MaxExpiries == 1
\* number of calls an operator makes in one behaviour
MaxOperatorCalls == 2
\* number of commands the key-value service refuses in one behaviour
MaxStoreErrors == 1
\* number of times the worker's failed event of one job is handled
MaxFailedEvents == 1

Reqs == 1..MaxReqs
JobIds == 1..MaxReqs

\* absent key of the key-value service, absent job of the queue
Nil == 0
Undefined == "undefined"

(***************************************************************************)
(* Text.  A message is a sequence of characters; a Korean phrase of the    *)
(* source is one opaque element (it holds no ASCII letter, so no term of   *)
(* the classification lists can match inside it).                          *)
(***************************************************************************)
UpperCase == <<"A", "B", "C", "D", "E", "F", "G", "H", "I", "J", "K", "L", "M",
               "N", "O", "P", "Q", "R", "S", "T", "U", "V", "W", "X", "Y", "Z">>
LowerCase == <<"a", "b", "c", "d", "e", "f", "g", "h", "i", "j", "k", "l", "m",
               "n", "o", "p", "q", "r", "s", "t", "u", "v", "w", "x", "y", "z">>

ToLowerChar(c) ==
    IF \E n \in 1..Len(UpperCase) : UpperCase[n] = c
    THEN LowerCase[CHOOSE n \in 1..Len(UpperCase) : UpperCase[n] = c]
    ELSE c

\* String.prototype.toLowerCase
ToLowerCase(s) == [n \in 1..Len(s) |-> ToLowerChar(s[n])]

\* String.prototype.includes
Includes(s, t) ==
    \E off \in 0..(Len(s) - Len(t)) : \A n \in 1..Len(t) : s[off + n] = t[n]

\* Array.prototype.join
RECURSIVE Join(_, _)
Join(parts, sep) ==
    IF Len(parts) = 0 THEN <<>>
    ELSE IF Len(parts) = 1 THEN parts[1]
    ELSE parts[1] \o sep \o Join(Tail(parts), sep)

\* a trail handed over in execution order
KeepOrder(s) == s

\* Array.prototype.reverse
Reverse(s) == [n \in 1..Len(s) |-> s[Len(s) + 1 - n]]

(***************************************************************************)
(* Step names and the functions registered under them                      *)
(***************************************************************************)
StepNames == {"reserve", "charge", "notify", "audit", "invalidate_cache",
              "unregistered_step"}

NameChars(name) ==
    CASE name = "reserve" -> <<"r", "e", "s", "e", "r", "v", "e">>
      [] name = "charge" -> <<"c", "h", "a", "r", "g", "e">>
      [] name = "notify" -> <<"n", "o", "t", "i", "f", "y">>
      [] name = "audit" -> <<"a", "u", "d", "i", "t">>
      [] name = "invalidate_cache" ->
            <<"i", "n", "v", "a", "l", "i", "d", "a", "t", "e", "_",
              "c", "a", "c", "h", "e">>
      [] name = "unregistered_step" ->
            <<"u", "n", "r", "e", "g", "i", "s", "t", "e", "r", "e", "d", "_",
              "s", "t", "e", "p">>

\* messages of the errors the registered execute functions throw
UserMessages == {"rejected", "timeout", "insufficient", "gone", "denied"}

UserMessageChars(m) ==
    CASE m = "rejected" ->
            <<"p", "a", "y", "m", "e", "n", "t", " ", "g", "a", "t", "e", "w",
              "a", "y", " ", "r", "e", "j", "e", "c", "t", "e", "d">>
      [] m = "timeout" ->
            <<"c", "o", "n", "n", "e", "c", "t", " ",
              "E", "T", "I", "M", "E", "D", "O", "U", "T">>
      [] m = "insufficient" ->
            <<"I", "n", "s", "u", "f", "f", "i", "c", "i", "e", "n", "t", " ",
              "b", "a", "l", "a", "n", "c", "e">>
      [] m = "gone" ->
            <<"C", "o", "n", "n", "e", "c", "t", "i", "o", "n", " ", "l", "o", "s", "t",
              ":", " ", "o", "r", "d", "e", "r", " ", "N", "o", "t", " ",
              "F", "o", "u", "n", "d">>
      [] m = "denied" ->
            <<"p", "e", "r", "m", "i", "s", "s", "i", "o", "n", " ",
              "d", "e", "n", "i", "e", "d">>

\* StepFunction: what execute does when called, whether compensate exists, and
\* which pair of function objects it is (version)
NotRegistered ==
    [registered |-> FALSE, throws |-> {}, compensate |-> FALSE, compensateThrows |-> {},
     version |-> "none"]
StepFn(throws, comp, compThrows) ==
    [registered |-> TRUE, throws |-> throws, compensate |-> comp,
     compensateThrows |-> compThrows, version |-> "boot"]

\* one element of the steps array a caller passes to execute(): the name and
\* the caller's own execute and compensate functions
TransactionStep(name) == [name |-> name, execute |-> "passed", compensate |-> "passed"]

\* the bindings made at process start (stepRegistry.register)
BootRegistry ==
    [name \in StepNames |->
        CASE name = "reserve" -> StepFn({}, TRUE, {})
          [] name = "charge" -> StepFn({"rejected", "timeout"}, TRUE, {"timeout"})
          [] name = "notify" -> StepFn({"insufficient"}, TRUE, {})
          [] name = "audit" -> StepFn({}, FALSE, {})
          [] OTHER -> NotRegistered]

\* bindings whose compensate functions raise errors of every class
CompensationRegistry ==
    [BootRegistry EXCEPT
        !["charge"].compensateThrows = {"timeout", "rejected", "gone"},
        !["reserve"].compensateThrows = {"denied"}]

\* the bindings a re-registration at run time puts in place of the boot ones
LatestRegistry ==
    [name \in StepNames |->
        CASE name = "charge" ->
                [StepFn({"rejected"}, TRUE, {}) EXCEPT !.version = "latest"]
          [] OTHER -> BootRegistry[name]]

\* a worker that keeps using the bindings it saw at process start
GetBootBinding(reg, name) == BootRegistry[name]

\* stepRegistry.get(name)
RegistryGet(reg, name) == reg[name]

\* new Map(): no name is bound
EmptyRegistry == [name \in StepNames |-> NotRegistered]

\* stepRegistry.register(name, execute, compensate): last writer wins
RegistryRegister(reg, name, fn) == [reg EXCEPT ![name] = fn]

\* stepRegistry.unregister(name)
RegistryUnregister(reg, name) == [reg EXCEPT ![name] = NotRegistered]

(***************************************************************************)
(* Resources and lock keys                                                 *)
(***************************************************************************)
Resource(type, id, action) == [type |-> type, id |-> id, action |-> action]

LOCK_PREFIX == "tx_lock:"

\* keys that leave the id out
LockKeysWithoutId(resourceIdentifiers) ==
    [n \in 1..Len(resourceIdentifiers) |->
        <<LOCK_PREFIX, "user", "_", "1">>]

GenerateResourceLockKeys(resourceIdentifiers) ==
    [n \in 1..Len(resourceIdentifiers) |->
        LET resource == resourceIdentifiers[n]
            action == IF resource.action # "" THEN <<"_", resource.action>> ELSE <<>>
        IN  <<LOCK_PREFIX, resource.type, "_", resource.id>> \o action]

\* an optional argument: <<>> when it is not passed, <<v>> when v is passed
NotPassed == <<>>
Passed(v) == <<v>>

\* resourceIdentifiers || [{ type: 'user', id: userId }]
FinalResourceIdentifiers(userId, resourceIdentifiers) ==
    IF resourceIdentifiers = NotPassed
    THEN <<Resource("user", userId, "")>>
    ELSE resourceIdentifiers[1]

User1 == Resource("user", "1", "")
User2 == Resource("user", "2", "")
Order7 == Resource("order", "7", "pay")

AllResources == {User1, User2, Order7}
LockKeys == {GenerateResourceLockKeys(<<r>>)[1] : r \in AllResources}

(***************************************************************************)
(* Errors                                                                  *)
(***************************************************************************)
NoError == [kind |-> "none", step |-> "", message |-> ""]
\* new Error(`리소스(...)에 대한 다른 트랜잭션이 진행 중입니다`)
ResourceBusyError == [kind |-> "busy", step |-> "", message |-> ""]
\* new Error(`Step function not found: ${step.name}`)
StepNotFoundError(name) == [kind |-> "notfound", step |-> name, message |-> ""]
\* the error a registered execute throws
StepError(name, m) == [kind |-> "step", step |-> name, message |-> m]

\* the error a command of the key-value client rejects with
StoreError == [kind |-> "store", step |-> "", message |-> ""]

\* the phrase the worker puts in every lock-contention message
BusyPhrase == <<"KO:dareun teuraenjaeksyeoni jinhaeng jungimnida">>

\* finalResourceIdentifiers.map((r) => `${r.type}:${r.id}`).join(', ')
ResourceNames(resourceIdentifiers) ==
    Join([n \in 1..Len(resourceIdentifiers) |->
            <<resourceIdentifiers[n].type, ":", resourceIdentifiers[n].id>>],
         <<",", " ">>)

\* error.message
ErrorMessage(error, resourceIdentifiers) ==
    CASE error.kind = "busy" ->
            <<"KO:risoseu", "(">> \o ResourceNames(resourceIdentifiers)
                \o <<")", "KO:e daehan", " ">> \o BusyPhrase
      [] error.kind = "notfound" ->
            <<"S", "t", "e", "p", " ", "f", "u", "n", "c", "t", "i", "o", "n", " ",
              "n", "o", "t", " ", "f", "o", "u", "n", "d", ":", " ">>
                \o NameChars(error.step)
      [] error.kind = "step" -> UserMessageChars(error.message)
      [] error.kind = "store" ->
            <<"C", "o", "n", "n", "e", "c", "t", "i", "o", "n", " ", "i", "s", " ",
              "c", "l", "o", "s", "e", "d", ".">>
      [] OTHER -> <<>>

\* error.name: every error of the model is built by new Error(...)
ErrorName(error) == <<"E", "r", "r", "o", "r">>

retryableErrors ==
    << <<"E", "C", "O", "N", "N", "R", "E", "F", "U", "S", "E", "D">>,
       <<"E", "T", "I", "M", "E", "D", "O", "U", "T">>,
       <<"S", "t", "e", "p", " ", "f", "u", "n", "c", "t", "i", "o", "n", " ",
         "n", "o", "t", " ", "f", "o", "u", "n", "d">>,
       <<"R", "e", "d", "i", "s", " ", "c", "o", "n", "n", "e", "c", "t", "i", "o",
         "n", " ", "f", "a", "i", "l", "e", "d">>,
       <<"D", "a", "t", "a", "b", "a", "s", "e", " ", "t", "e", "m", "p", "o", "r",
         "a", "r", "i", "l", "y", " ", "u", "n", "a", "v", "a", "i", "l", "a", "b",
         "l", "e">>,
       <<"E", "x", "t", "e", "r", "n", "a", "l", " ", "A", "P", "I", " ",
         "t", "i", "m", "e", "o", "u", "t">> >>

nonRetryableErrors ==
    << <<"D", "u", "p", "l", "i", "c", "a", "t", "e">>,
       <<"I", "n", "s", "u", "f", "f", "i", "c", "i", "e", "n", "t">>,
       <<"a", "l", "r", "e", "a", "d", "y">>,
       <<"I", "n", "v", "a", "l", "i", "d">>,
       <<"P", "e", "r", "m", "i", "s", "s", "i", "o", "n", " ",
         "d", "e", "n", "i", "e", "d">> >>

\* isDLQRetryable applied to an error with this message and name
IsRetryableText(message, name) ==
    LET isNonRetryable ==
            \E n \in 1..Len(nonRetryableErrors) :
                Includes(ToLowerCase(message), ToLowerCase(nonRetryableErrors[n]))
    IN  IF isNonRetryable THEN FALSE
        ELSE \E n \in 1..Len(retryableErrors) :
                \/ Includes(message, retryableErrors[n])
                \/ Includes(name, retryableErrors[n])

IsDLQRetryable(error, resourceIdentifiers) ==
    IsRetryableText(ErrorMessage(error, resourceIdentifiers), ErrorName(error))

(***************************************************************************)
(* Lock TTL                                                                *)
(***************************************************************************)
\* a variable of process.env that is not set (or set to the empty string)
UnsetEnv == <<>>

Digits == <<"0", "1", "2", "3", "4", "5", "6", "7", "8", "9">>

IsDigit(c) == \E d \in 1..Len(Digits) : Digits[d] = c

DigitValue(c) == (CHOOSE d \in 1..Len(Digits) : Digits[d] = c) - 1

\* what parseInt returns for a text that does not start with a digit
NaN == -1

\* the value of the digits of s before position n, when they are all digits
RECURSIVE ParseDigits(_, _)
ParseDigits(s, n) ==
    IF n = 0 THEN 0 ELSE ParseDigits(s, n - 1) * 10 + DigitValue(s[n])

\* parseInt(s): the number written by the longest prefix of digits
ParseInt(s) ==
    LET stops == {n \in 1..Len(s) : ~IsDigit(s[n])}
        len == IF stops = {} THEN Len(s)
               ELSE (CHOOSE n \in stops : \A m \in stops : n <= m) - 1
    IN  IF len = 0 THEN NaN ELSE ParseDigits(s, len)

\* `ttl: number = 30` of SimpleTransactionManager.acquireLock
ManagerDefaultTtl == 30

\* the ttl argument SimpleTransactionManager.acquireLock hands to the service
ManagerAcquireLockTtl(ttl) ==
    IF ttl = NotPassed THEN Passed(ManagerDefaultTtl) ELSE ttl

\* process.env.TRANSACTION_LOCK_TTL_SECONDS || '30'
ConfiguredTtlText(e) == IF e = UnsetEnv THEN <<"3", "0">> ELSE e

\* the EX argument of DistributedLockService.acquireLock
ServiceAcquireLockTtl(ttl, e) ==
    IF ttl = NotPassed THEN ParseInt(ConfiguredTtlText(e)) ELSE ttl[1]

\* the EX argument of the keys process() sets: it calls
\* transactionManager.acquireLock(finalResourceIdentifiers, job.id)
WorkerLockTtl(e) == ServiceAcquireLockTtl(ManagerAcquireLockTtl(NotPassed), e)

(***************************************************************************)
(* Lock service on the key-value store                                     *)
(***************************************************************************)
Range(s) == {s[n] : n \in 1..Len(s)}

\* a set without NX: it succeeds whatever the key holds
SetAlwaysAcquired(locks, lockKey) == TRUE

\* redis.set(lockKey, jobId, 'EX', ttl, 'NX'): truthy iff the key was absent
SetNxAcquired(locks, lockKey) == locks[lockKey] = Nil

SetNx(locks, lockKey, jobId) ==
    IF SetNxAcquired(locks, lockKey)
    THEN [locks EXCEPT ![lockKey] = jobId]
    ELSE locks

\* a release that deletes the keys without comparing their value
ReleaseWithoutOwnerCheck(locks, lockKeys, jobId) ==
    [k \in DOMAIN locks |-> IF k \in Range(lockKeys) THEN Nil ELSE locks[k]]

\* a release whose script deletes nothing
ReleaseNothing(locks, lockKeys, jobId) == locks

\* the Lua script of releaseLockInternal: delete each key whose value is jobId
ReleaseLockInternal(locks, lockKeys, jobId) ==
    [k \in DOMAIN locks |->
        IF k \in Range(lockKeys) /\ locks[k] = jobId THEN Nil ELSE locks[k]]

(***************************************************************************)
(* Job payload                                                             *)
(***************************************************************************)
\* result: null
NullResult == <<>>

NoData ==
    [userId |-> "", steps |-> <<>>, currentStepIndex |-> 0,
     idempotencyKey |-> Undefined, resourceIdentifiers |-> <<>>]

NoJob ==
    [state |-> "none", attemptsMade |-> 0, progress |-> 0, failedEvents |-> 0,
     data |-> NoData]

\* the payload execute() hands to queue.add
NewJobData(userId, steps, resourceIdentifiers, idempotencyKey) ==
    [userId |-> userId,
     steps |-> [n \in 1..Len(steps) |->
                  [name |-> steps[n].name, status |-> "pending", index |-> n - 1,
                   result |-> NullResult]],
     currentStepIndex |-> 0,
     idempotencyKey |-> idempotencyKey,
     resourceIdentifiers |-> FinalResourceIdentifiers(userId, resourceIdentifiers)]


Max(a, b) == IF a >= b THEN a ELSE b

\* a status write that sends a failed job back to its first step
UpdateJobStepStatusResetOnFail(jobData, stepIndex, status, result) ==
    [jobData EXCEPT !.steps[stepIndex + 1].status = status,
                    !.currentStepIndex = IF status = "failed" THEN 0
                                         ELSE Max(@, stepIndex)]

\* a status write that advances past the step after the completed one
UpdateJobStepStatusSkipping(jobData, stepIndex, status, result) ==
    LET s1 == [jobData.steps EXCEPT ![stepIndex + 1].status = status]
        s2 == IF result # NotPassed
              THEN [s1 EXCEPT ![stepIndex + 1].result = result[1]]
              ELSE s1
    IN  [jobData EXCEPT !.steps = s2,
                        !.currentStepIndex =
                            IF status = "completed" /\ stepIndex < Len(jobData.steps) - 1
                            THEN stepIndex + 2
                            ELSE Max(@, stepIndex)]

\* a status write that persists nothing before the step has run
UpdateJobStepStatusLazy(jobData, stepIndex, status, result) ==
    IF status = "in_progress" THEN jobData
    ELSE LET s1 == [jobData.steps EXCEPT ![stepIndex + 1].status = status]
             s2 == IF result # NotPassed
                   THEN [s1 EXCEPT ![stepIndex + 1].result = result[1]]
                   ELSE s1
         IN  [jobData EXCEPT !.steps = s2,
                             !.currentStepIndex =
                                 IF status = "completed"
                                 THEN IF stepIndex < Len(jobData.steps) - 1
                                      THEN stepIndex + 1
                                      ELSE Max(@, stepIndex)
                                 ELSE @]

\* updateJobStepStatus; stepIndex counts from 0 as in the source
UpdateJobStepStatus(jobData, stepIndex, status, result) ==
    LET s1 == [jobData.steps EXCEPT ![stepIndex + 1].status = status]
        s2 == IF result # NotPassed
              THEN [s1 EXCEPT ![stepIndex + 1].result = result[1]]
              ELSE s1
        c1 == IF status \in {"in_progress", "completed"}
              THEN Max(jobData.currentStepIndex, stepIndex)
              ELSE jobData.currentStepIndex
        c2 == IF status = "completed" /\ stepIndex < Len(jobData.steps) - 1
              THEN stepIndex + 1
              ELSE c1
    IN  [jobData EXCEPT !.steps = s2, !.currentStepIndex = c2]

\* Math.floor((i / steps.length) * 100)
ProgressOf(i, n) == (i * 100) \div n

\* a worker that starts every invocation with an empty trail
NoTrail(steps, currentStepIndex, reg) == <<>>

\* the success trail rebuilt from the persisted steps below currentStepIndex
RECURSIVE RebuildTrail(_, _, _)
RebuildTrail(steps, currentStepIndex, reg) ==
    IF currentStepIndex = 0 THEN <<>>
    ELSE LET step == steps[currentStepIndex]
             rest == RebuildTrail(steps, currentStepIndex - 1, reg)
         IN  IF step.status = "completed" /\ RegistryGet(reg, step.name).registered
             THEN Append(rest, [step |-> step.name, result |-> step.result,
                                stepFunction |-> RegistryGet(reg, step.name)])
             ELSE rest

(***************************************************************************)
(* Quarantine                                                              *)
(***************************************************************************)
\* redis.hset stores every field as a string
ToRedisString(b) == IF b THEN "true" ELSE "false"

\* the dlqData record handleDeadLetterQueue builds from job.data and the error
DlqDataOf(jobId, jobData, finalError) ==
    LET cur == jobData.currentStepIndex
        completedBenefits ==
            LET idx == {n \in 1..Len(jobData.steps) :
                            n - 1 < cur /\ jobData.steps[n].status = "completed"}
                RECURSIVE Names(_)
                Names(n) ==
                    IF n > Len(jobData.steps) THEN <<>>
                    ELSE IF n \in idx
                         THEN <<jobData.steps[n].name>> \o Names(n + 1)
                         ELSE Names(n + 1)
            IN  Names(1)
        retryable == IsDLQRetryable(finalError, jobData.resourceIdentifiers)
    IN  [originalJobId |-> jobId,
         failureReason |-> finalError,
         completedBenefits |-> completedBenefits,
         failedStep |-> IF cur < Len(jobData.steps)
                        THEN jobData.steps[cur + 1].name
                        ELSE "Unknown",
         canRetry |-> retryable,
         priority |-> IF retryable THEN "high" ELSE "normal",
         failedStepIndex |-> cur]

\* the hash DLQService.addToDLQ writes under dlq:<dlqId>
DlqHash(dlqId, dlqJobData) ==
    [id |-> dlqId,
     originalJobId |-> dlqJobData.originalJobId,
     failureReason |-> dlqJobData.failureReason,
     completedBenefits |-> dlqJobData.completedBenefits,
     failedStep |-> dlqJobData.failedStep,
     priority |-> dlqJobData.priority,
     canRetry |-> ToRedisString(dlqJobData.canRetry),
     failedStepIndex |-> dlqJobData.failedStepIndex,
     manuallyProcessed |-> Undefined,
     processorNote |-> Undefined,
     processedAt |-> Undefined]

\* every record goes to dlq:high_priority
AlwaysHighPriority(dlqJobData) == TRUE

\* whether addToDLQ also adds the id to dlq:high_priority
IsHighPriority(dlqJobData) == dlqJobData.priority = "high"

(***************************************************************************)
(* State                                                                   *)
(***************************************************************************)
VARIABLES
    calls,          \* the execute() calls: arguments, position, returned jobId
    idempotent,     \* keys idempotent:<key> of the key-value service
    jobs,           \* the queue: state, attempts, progress and payload per job
    locks,          \* keys tx_lock:... of the key-value service
    workers,        \* the process() invocation running each job
    registry,       \* stepRegistry.steps
    dlq,            \* hashes dlq:<dlqId>, in order of creation
    dlqJobIds,      \* set dlq:job_ids
    dlqHighPriority,\* set dlq:high_priority
    dlqProcessed,   \* set dlq:processed
    compensationFailures, \* hashes compensation_failure:<jobId>:<stepName>
    log,            \* per job: execute / completed / compensate events so far
    crashes,        \* worker crashes so far
    expiries,       \* lock keys expired so far
    storeErrors,    \* commands the key-value service has refused so far
    env,            \* process.env.TRANSACTION_LOCK_TTL_SECONDS of the worker process
    compensationIndex, \* set compensation_failures:index
    operator,       \* the calls an operator has made to the two services, in order
    stalled         \* per job: the invocation the queue gave up on, still running

vars == <<calls, idempotent, jobs, locks, workers, registry, dlq, dlqJobIds,
          dlqHighPriority, dlqProcessed, compensationFailures, log, crashes,
          expiries, storeErrors, env, compensationIndex, operator, stalled>>

IdempotencyKeys == {"K"}

\* the arguments of one execute() call
Args(steps, resourceIdentifiers, idempotencyKey) ==
    [userId |-> "1",
     steps |-> [n \in 1..Len(steps) |-> TransactionStep(steps[n])],
     resourceIdentifiers |-> resourceIdentifiers,
     idempotencyKey |-> idempotencyKey]

\* A workload gives the arguments of the first call and of the other calls.
\* Saga runs: the first call varies its steps, the others contend with it for
\* the default lock of the same user.
SagaWorkloads ==
    {<<Args(st, NotPassed, Undefined), Args(<<"charge">>, NotPassed, "K")>> :
        st \in {<<"reserve", "charge", "notify">>, <<"audit", "charge">>,
                <<"reserve", "unregistered_step">>, <<"invalidate_cache">>}}

\* Lock runs: resource sets that coincide, overlap in either order, or are
\* disjoint.
LockWorkloads ==
    {<<Args(<<"reserve", "charge">>, r[1], Undefined), Args(<<"charge">>, r[2], "K")>> :
        r \in {<<NotPassed, NotPassed>>,
               <<Passed(<<User1, Order7>>), Passed(<<Order7, User1>>)>>,
               <<Passed(<<User1, Order7>>), Passed(<<User2>>)>>,
               <<NotPassed, Passed(<<Order7, User1>>)>>}}

\* Idempotency runs: every call carries the same key.
IdempotencyWorkloads ==
    {<<Args(<<"reserve", "charge">>, NotPassed, "K"),
       Args(<<"charge">>, NotPassed, "K")>>}

IdleWorker ==
    [pc |-> "idle", currentStepIndex |-> 0, i |-> 0, lockKeys |-> <<>>,
     acquiredKeys |-> <<>>, lockAcquired |-> FALSE, executionResults |-> <<>>,
     stepFunction |-> NotRegistered, result |-> NullResult, c |-> 0,
     error |-> NoError, blockedBy |-> Nil, releaseCalled |-> FALSE,
     succeeded |-> FALSE, dlqError |-> FALSE, startStatus |-> "",
     rebuiltFrom |-> EmptyRegistry, ttl |-> Nil, unsaved |-> NoData]

NewCall(args) == [pc |-> "get", args |-> args, jobId |-> Nil, returned |-> Nil]

InitStore(workloads) ==
    /\ \E wl \in workloads :
            calls = [q \in Reqs |-> NewCall(IF q = 1 THEN wl[1] ELSE wl[2])]
    /\ idempotent = [k \in IdempotencyKeys |-> Nil]
    /\ jobs = [j \in JobIds |-> NoJob]
    /\ locks = [k \in LockKeys |-> Nil]
    /\ workers = [j \in JobIds |-> IdleWorker]
    /\ stalled = [j \in JobIds |-> IdleWorker]
    /\ dlq = {}
    /\ dlqJobIds = {}
    /\ dlqHighPriority = {}
    /\ dlqProcessed = {}
    /\ compensationFailures = {}
    /\ compensationIndex = {}
    /\ operator = <<>>
    /\ log = [j \in JobIds |-> <<>>]
    /\ crashes = 0
    /\ expiries = 0
    /\ storeErrors = 0

\* the state after construction and the registrations made at process start
InitState(workloads) == InitStore(workloads) /\ registry = BootRegistry

\* the state after construction in a process that does not set the variable
InitWith(workloads) == InitState(workloads) /\ env = UnsetEnv

Init == InitWith(SagaWorkloads)
InitLock == InitWith(LockWorkloads)
InitIdempotency == InitWith(IdempotencyWorkloads)

(***************************************************************************)
(* SimpleTransactionManager.execute                                        *)
(***************************************************************************)
NextJobId == Cardinality({j \in JobIds : jobs[j].state # "none"}) + 1

\* redis.get(`idempotent:${idempotencyKey}`) and the early return on a hit
ExecuteGet(q) ==
    LET key == calls[q].args.idempotencyKey IN
    /\ calls[q].pc = "get"
    /\ IF key # Undefined /\ idempotent[key] # Nil
       THEN calls' = [calls EXCEPT ![q].pc = "done", ![q].returned = idempotent[key]]
       ELSE calls' = [calls EXCEPT ![q].pc = "add"]
    /\ UNCHANGED <<stalled, env, operator, compensationIndex, idempotent, jobs, locks, workers, registry, dlq, dlqJobIds,
                   dlqHighPriority, dlqProcessed, compensationFailures, log, crashes, expiries, storeErrors>>

\* transactionQueue.add('process-transaction', {...}, {attempts: 1, ...})
ExecuteAdd(q) ==
    LET a == calls[q].args
        id == NextJobId
    IN
    /\ calls[q].pc = "add"
    /\ id \in JobIds
    /\ jobs' = [jobs EXCEPT ![id] =
                  [state |-> "waiting", attemptsMade |-> 0, progress |-> 0,
                   failedEvents |-> 0,
                   data |-> NewJobData(a.userId, a.steps, a.resourceIdentifiers,
                                       a.idempotencyKey)]]
    /\ IF a.idempotencyKey # Undefined
       THEN calls' = [calls EXCEPT ![q].pc = "set", ![q].jobId = id]
       ELSE calls' = [calls EXCEPT ![q].pc = "done", ![q].jobId = id,
                                   ![q].returned = id]
    /\ UNCHANGED <<stalled, env, operator, compensationIndex, idempotent, locks, workers, registry, dlq, dlqJobIds,
                   dlqHighPriority, dlqProcessed, compensationFailures, log, crashes, expiries, storeErrors>>

\* redis.set(`idempotent:${idempotencyKey}`, jobId.id, 'EX', 3600)
IdempotentSet(store, key, jobId) == [store EXCEPT ![key] = jobId]

ExecuteSet(q) ==
    /\ calls[q].pc = "set"
    /\ idempotent' = IdempotentSet(idempotent, calls[q].args.idempotencyKey,
                                   calls[q].jobId)
    /\ calls' = [calls EXCEPT ![q].pc = "done", ![q].returned = calls[q].jobId]
    /\ UNCHANGED <<stalled, env, operator, compensationIndex, jobs, locks, workers, registry, dlq, dlqJobIds,
                   dlqHighPriority, dlqProcessed, compensationFailures, log, crashes, expiries, storeErrors>>

(***************************************************************************)
(* CompensationService                                                     *)
(***************************************************************************)
retryableCompensationErrors ==
    << <<"E", "C", "O", "N", "N", "R", "E", "F", "U", "S", "E", "D">>,
       <<"E", "T", "I", "M", "E", "D", "O", "U", "T">>,
       <<"L", "o", "c", "k", " ", "w", "a", "i", "t", " ",
         "t", "i", "m", "e", "o", "u", "t">>,
       <<"C", "o", "n", "n", "e", "c", "t", "i", "o", "n", " ", "l", "o", "s", "t">>,
       <<"S", "e", "r", "v", "e", "r", " ", "t", "e", "m", "p", "o", "r", "a", "r",
         "i", "l", "y", " ", "u", "n", "a", "v", "a", "i", "l", "a", "b", "l", "e">>,
       <<"R", "e", "d", "i", "s", " ", "c", "o", "n", "n", "e", "c", "t", "i", "o",
         "n", " ", "f", "a", "i", "l", "e", "d">> >>

nonRetryableCompensationErrors ==
    << <<"n", "o", "t", " ", "f", "o", "u", "n", "d">>,
       <<"I", "n", "v", "a", "l", "i", "d", " ",
         "p", "a", "r", "a", "m", "e", "t", "e", "r">>,
       <<"P", "e", "r", "m", "i", "s", "s", "i", "o", "n", " ",
         "d", "e", "n", "i", "e", "d">>,
       <<"C", "o", "n", "s", "t", "r", "a", "i", "n", "t", " ",
         "v", "i", "o", "l", "a", "t", "i", "o", "n">> >>

\* a classification that looks at the retryable terms only
RetryableTermWins(error) ==
    \E n \in 1..Len(retryableCompensationErrors) :
        \/ Includes(ErrorMessage(error, <<>>), retryableCompensationErrors[n])
        \/ Includes(ErrorName(error), retryableCompensationErrors[n])

IsRetryableCompensationError(error) ==
    LET message == ErrorMessage(error, <<>>)
        isNonRetryable ==
            \E n \in 1..Len(nonRetryableCompensationErrors) :
                Includes(ToLowerCase(message),
                         ToLowerCase(nonRetryableCompensationErrors[n]))
    IN  IF isNonRetryable THEN FALSE
        ELSE \E n \in 1..Len(retryableCompensationErrors) :
                \/ Includes(message, retryableCompensationErrors[n])
                \/ Includes(ErrorName(error), retryableCompensationErrors[n])

\* recordCompensationFailure: hset under compensation_failure:<jobId>:<stepName>
RecordCompensationFailure(records, jobId, stepName, stepResult, error) ==
    {r \in records : r.key # <<jobId, stepName>>}
        \cup {[key |-> <<jobId, stepName>>, jobId |-> jobId, stepName |-> stepName,
               stepResult |-> stepResult, error |-> error,
               retryable |-> ToRedisString(IsRetryableCompensationError(error))]}

\* recordCompensationFailure: sadd compensation_failures:index <key>
IndexCompensationFailure(index, jobId, stepName) == index \cup {<<jobId, stepName>>}

(***************************************************************************)
(* SimpleTransactionConsumer.process                                       *)
(***************************************************************************)
Steps(j) == jobs[j].data.steps

\* job.data as the invocation sees it: updateJobStepStatus changes the object
\* in place before job.updateData, so after a rejected write the object is
\* ahead of the payload the job store holds
InMemoryData(j) ==
    IF workers[j].unsaved = NoData THEN jobs[j].data ELSE workers[j].unsaved

\* a loop that starts at step 0 whatever the payload says
LockAcquiredFromZero(w, jobData, reg) ==
    [w EXCEPT !.lockAcquired = TRUE,
              !.rebuiltFrom = reg,
              !.executionResults =
                    RebuildTrail(jobData.steps, w.currentStepIndex, reg),
              !.i = 0,
              !.pc = IF 0 < Len(jobData.steps) THEN "progress" ELSE "progress100"]

\* the state of the invocation once acquireLock has returned true
LockAcquired(w, jobData, reg) ==
    [w EXCEPT !.lockAcquired = TRUE,
              !.rebuiltFrom = reg,
              !.executionResults =
                    RebuildTrail(jobData.steps, w.currentStepIndex, reg),
              !.i = w.currentStepIndex,
              !.pc = IF w.currentStepIndex < Len(jobData.steps)
                     THEN "progress" ELSE "progress100"]

\* the queue hands a waiting job to a worker; process() reads job.data
ProcessStart(j) ==
    LET d == jobs[j].data IN
    /\ jobs[j].state = "waiting"
    /\ jobs[j].attemptsMade < MaxAttempts
    /\ jobs' = [jobs EXCEPT ![j].state = "active",
                            ![j].attemptsMade = jobs[j].attemptsMade + 1]
    /\ workers' = [workers EXCEPT ![j] =
            [IdleWorker EXCEPT
                !.pc = "acquire",
                !.currentStepIndex = d.currentStepIndex,
                !.startStatus =
                    IF d.currentStepIndex + 1 \in DOMAIN d.steps
                    THEN d.steps[d.currentStepIndex + 1].status ELSE "",
                !.lockKeys = GenerateResourceLockKeys(
                    FinalResourceIdentifiers(d.userId,
                                             Passed(d.resourceIdentifiers)))]]
    /\ UNCHANGED <<stalled, env, operator, compensationIndex, calls, idempotent, locks, registry, dlq, dlqJobIds,
                   dlqHighPriority, dlqProcessed, compensationFailures, log, crashes, expiries, storeErrors>>

\* Faults are injected one kind at a time: the key-value service refuses a
\* command only in a behaviour without a worker crash, and conversely; it
\* refuses none once the registry has been changed at run time; once an
\* operator has called, only the operator's own commands can be refused.
MayRefuse ==
    /\ storeErrors < MaxStoreErrors
    /\ crashes = 0
    /\ registry = BootRegistry
    /\ operator = <<>>

MayCrash == crashes < MaxCrashes /\ storeErrors = 0 /\ operator = <<>>

\* one redis.set ... NX of DistributedLockService.acquireLock
AcquireLock(j) ==
    LET w == workers[j]
        n == Len(w.acquiredKeys)
    IN
    /\ w.pc = "acquire"
    /\ \/ /\ IF n = Len(w.lockKeys)
             THEN /\ workers' = [workers EXCEPT ![j] =
                                    LockAcquired(w, jobs[j].data, registry)]
                  /\ UNCHANGED locks
             ELSE LET lockKey == w.lockKeys[n + 1] IN
                  IF SetNxAcquired(locks, lockKey)
                  THEN /\ locks' = SetNx(locks, lockKey, j)
                       /\ LET w2 == [w EXCEPT !.acquiredKeys =
                                                Append(w.acquiredKeys, lockKey),
                                              !.ttl = WorkerLockTtl(env)]
                          IN  workers' = [workers EXCEPT ![j] =
                                  IF n + 1 = Len(w.lockKeys)
                                  THEN LockAcquired(w2, jobs[j].data, registry)
                                  ELSE w2]
                  ELSE /\ workers' = [workers EXCEPT ![j].pc = "rollback",
                                                     ![j].blockedBy = locks[lockKey]]
                       /\ UNCHANGED locks
          /\ UNCHANGED storeErrors
       \* redis.set rejects: catch (error) of acquireLock
       \/ /\ n < Len(w.lockKeys)
          /\ MayRefuse
          /\ storeErrors' = storeErrors + 1
          /\ workers' = [workers EXCEPT ![j].pc = "rollback",
                                        ![j].error = StoreError]
          /\ UNCHANGED locks
    /\ UNCHANGED <<stalled, env, operator, compensationIndex, calls, idempotent, jobs, registry, dlq, dlqJobIds,
                   dlqHighPriority, dlqProcessed, compensationFailures, log, crashes,
                   expiries>>

\* acquireLock releases the keys it set, then returns false (process() throws
\* the resource-busy error) or rethrows the error of redis.set
AcquireRollback(j) ==
    LET w == workers[j] IN
    /\ w.pc = "rollback"
    /\ locks' = ReleaseLockInternal(locks, w.acquiredKeys, j)
    /\ workers' = [workers EXCEPT ![j].pc = "dlq",
                                  ![j].error = IF w.error = NoError
                                               THEN ResourceBusyError
                                               ELSE w.error]
    /\ UNCHANGED <<stalled, env, operator, compensationIndex, calls, idempotent, jobs, registry, dlq, dlqJobIds,
                   dlqHighPriority, dlqProcessed, compensationFailures, log, crashes, expiries, storeErrors>>

\* job.updateProgress(Math.floor((i / steps.length) * 100))
UpdateProgress(j) ==
    LET w == workers[j] IN
    /\ w.pc = "progress"
    /\ jobs' = [jobs EXCEPT ![j].progress = ProgressOf(w.i, Len(Steps(j)))]
    /\ workers' = [workers EXCEPT ![j].pc = "markInProgress"]
    /\ UNCHANGED <<stalled, env, operator, compensationIndex, calls, idempotent, locks, registry, dlq, dlqJobIds,
                   dlqHighPriority, dlqProcessed, compensationFailures, log, crashes, expiries, storeErrors>>

\* updateJobStepStatus(job, i, 'in_progress')
MarkInProgress(j) ==
    LET w == workers[j] IN
    /\ w.pc = "markInProgress"
    /\ jobs' = [jobs EXCEPT ![j].data =
                    UpdateJobStepStatus(InMemoryData(j), w.i, "in_progress", NotPassed)]
    /\ workers' = [workers EXCEPT ![j].pc = "execute", ![j].unsaved = NoData]
    /\ UNCHANGED <<stalled, env, operator, compensationIndex, calls, idempotent, locks, registry, dlq, dlqJobIds,
                   dlqHighPriority, dlqProcessed, compensationFailures, log, crashes, expiries, storeErrors>>

\* the value the call of execute of step i in this attempt returns
ResultOf(attempt, i) == <<attempt, i>>

\* stepRegistry.get(step.name) and stepFunction.execute()
ExecuteStep(j) ==
    LET w == workers[j]
        name == Steps(j)[w.i + 1].name
        fn == RegistryGet(registry, name)
        attempt == jobs[j].attemptsMade
    IN
    /\ w.pc = "execute"
    /\ IF ~fn.registered
       THEN /\ workers' = [workers EXCEPT ![j].pc = "markFailed",
                                          ![j].error = StepNotFoundError(name)]
            /\ UNCHANGED log
       ELSE \/ /\ workers' = [workers EXCEPT ![j].pc = "markCompleted",
                                                ![j].stepFunction = fn,
                                                ![j].result = ResultOf(attempt, w.i)]
               /\ log' = [log EXCEPT ![j] = Append(@,
                            [ev |-> "execute", attempt |-> attempt, index |-> w.i,
                             step |-> name, result |-> ResultOf(attempt, w.i),
                             threw |-> FALSE, fn |-> fn.version])]
            \/ /\ \E m \in fn.throws :
                    workers' = [workers EXCEPT ![j].pc = "markFailed",
                                               ![j].error = StepError(name, m)]
               /\ log' = [log EXCEPT ![j] = Append(@,
                            [ev |-> "execute", attempt |-> attempt, index |-> w.i,
                             step |-> name, result |-> NullResult,
                             threw |-> TRUE, fn |-> fn.version])]
    /\ UNCHANGED <<stalled, env, operator, compensationIndex, calls, idempotent, jobs, locks, registry, dlq, dlqJobIds,
                   dlqHighPriority, dlqProcessed, compensationFailures, crashes,
                   expiries, storeErrors>>

\* updateJobStepStatus(job, i, 'completed', result); executionResults.push
MarkCompleted(j) ==
    LET w == workers[j]
        name == Steps(j)[w.i + 1].name
    IN
    /\ w.pc = "markCompleted"
    /\ jobs' = [jobs EXCEPT ![j].data =
                    UpdateJobStepStatus(InMemoryData(j), w.i, "completed",
                                        Passed(w.result))]
    /\ log' = [log EXCEPT ![j] = Append(@,
                [ev |-> "completed", attempt |-> jobs[j].attemptsMade,
                 index |-> w.i, step |-> name, result |-> w.result,
                 threw |-> FALSE, fn |-> w.stepFunction.version])]
    /\ workers' = [workers EXCEPT ![j] =
            [w EXCEPT !.executionResults = Append(w.executionResults,
                            [step |-> name, result |-> w.result,
                             stepFunction |-> w.stepFunction]),
                      !.i = w.i + 1,
                      !.unsaved = NoData,
                      !.pc = IF w.i + 1 < Len(Steps(j))
                             THEN "progress" ELSE "progress100"]]
    /\ UNCHANGED <<stalled, env, operator, compensationIndex, calls, idempotent, locks, registry, dlq, dlqJobIds,
                   dlqHighPriority, dlqProcessed, compensationFailures, crashes,
                   expiries, storeErrors>>

\* catch (stepError): updateJobStepStatus(job, i, 'failed');
\* executionResults.reverse() is handed to executeCompensation
MarkFailed(j) ==
    LET w == workers[j] IN
    /\ w.pc = "markFailed"
    /\ jobs' = [jobs EXCEPT ![j].data =
                    UpdateJobStepStatus(InMemoryData(j), w.i, "failed", NotPassed)]
    /\ workers' = [workers EXCEPT ![j] =
            [w EXCEPT !.executionResults = Reverse(w.executionResults),
                      !.c = 1,
                      !.unsaved = NoData,
                      !.pc = IF Len(w.executionResults) = 0
                             THEN "dlq" ELSE "compensate"]]
    /\ UNCHANGED <<stalled, env, operator, compensationIndex, calls, idempotent, locks, registry, dlq, dlqJobIds,
                   dlqHighPriority, dlqProcessed, compensationFailures, log, crashes, expiries, storeErrors>>

\* the records after compensate of trail entry e returned (unchanged) or threw
CompensateOutcomes(j, e) ==
    {compensationFailures}
        \cup {RecordCompensationFailure(compensationFailures, j, e.step, e.result,
                                        StepError(e.step, m)) :
                m \in e.stepFunction.compensateThrows}

\* a loop that lets the error of compensate escape
AbortOnCompensationError(w, e, threw) ==
    IF threw
    THEN [w EXCEPT !.pc = "dlq", !.error = StepError(e.step, "timeout")]
    ELSE [w EXCEPT !.c = w.c + 1,
                   !.pc = IF w.c + 1 > Len(w.executionResults)
                          THEN "dlq" ELSE "compensate"]

\* the invocation after compensate of trail entry e returned or threw: the
\* catch of the loop swallows the error and the loop goes on
AfterCompensate(w, e, threw) ==
    [w EXCEPT !.c = w.c + 1,
              !.pc = IF w.c + 1 > Len(w.executionResults)
                     THEN "dlq" ELSE "compensate"]

\* one turn of the loop of CompensationService.executeCompensation
Compensate(j) ==
    LET w == workers[j]
        e == w.executionResults[w.c]
    IN
    /\ w.pc = "compensate"
    /\ IF e.stepFunction.compensate
       THEN \E threw \in BOOLEAN, after \in CompensateOutcomes(j, e) :
               /\ threw = (after # compensationFailures)
               /\ workers' = [workers EXCEPT ![j] = AfterCompensate(w, e, threw)]
               /\ log' = [log EXCEPT ![j] = Append(@,
                        [ev |-> "compensate", attempt |-> jobs[j].attemptsMade,
                         index |-> w.i, step |-> e.step, result |-> e.result,
                         threw |-> threw, fn |-> e.stepFunction.version])]
               /\ compensationFailures' = after
               /\ compensationIndex' =
                    IF threw THEN IndexCompensationFailure(compensationIndex, j, e.step)
                    ELSE compensationIndex
       ELSE /\ workers' = [workers EXCEPT ![j] = AfterCompensate(w, e, FALSE)]
            /\ UNCHANGED <<log, compensationFailures, compensationIndex>>
    /\ UNCHANGED <<stalled, env, operator, calls, idempotent, jobs, locks, registry, dlq, dlqJobIds,
                   dlqHighPriority, dlqProcessed, crashes, expiries, storeErrors>>

\* `dlq_${Date.now()}_${random}`: an id no other record has
NewDlqId(j) == <<j, Cardinality({r \in dlq : r.originalJobId = j}) + 1>>

\* finally { if (lockAcquired) releaseLock(...) }
ReleasesEvenWithoutLock(w) == TRUE

\* a release placed after the steps instead of in finally
ReleasesOnlyOnSuccess(w) == w.lockAcquired /\ w.succeeded

ReleasesInFinally(w) == w.lockAcquired

\* the commands DLQService.addToDLQ sends: hset, sadd dlq:job_ids and, for a
\* high-priority record, sadd dlq:high_priority
DlqCommands(dlqJobData) == IF IsHighPriority(dlqJobData) THEN 3 ELSE 2

\* the error a rejected command of addToDLQ raises inside handleDeadLetterQueue
DlqWriteError == [kind |-> "dlq", step |-> "", message |-> ""]

\* a catch that lets the error of the quarantine write replace the saga's
ThrowsQuarantineError(w, dlqError) == IF dlqError THEN DlqWriteError ELSE w.error

\* the error process() throws after handleDeadLetterQueue: catch (dlqError)
\* only logs, then `throw error` rethrows the error of the invocation
ThrownAfterQuarantine(w, dlqError) == w.error

\* catch (error): handleDeadLetterQueue and DLQService.addToDLQ; throw error.
\* accepted counts the commands of addToDLQ the key-value service accepted
\* before it rejected one.
AddToDLQ(j) ==
    LET w == workers[j]
        dlqId == NewDlqId(j)
    IN
    /\ w.pc = "dlq"
    /\ \E dlqJobData \in {DlqDataOf(j, InMemoryData(j), w.error)} :
       \E accepted \in 0..DlqCommands(dlqJobData) :
          LET dlqError == accepted < DlqCommands(dlqJobData) IN
          /\ IF dlqError
             THEN MayRefuse /\ storeErrors' = storeErrors + 1
             ELSE UNCHANGED storeErrors
          /\ IF accepted >= 1
             THEN /\ dlq' = dlq \cup {DlqHash(dlqId, dlqJobData)}
                  /\ log' = [log EXCEPT ![j] = Append(@,
                        [ev |-> "quarantine", attempt |-> jobs[j].attemptsMade,
                         index |-> w.i, step |-> "", result |-> NullResult,
                         threw |-> dlqError, fn |-> "none"])]
             ELSE UNCHANGED <<dlq, log>>
          /\ dlqJobIds' = IF accepted >= 2 THEN dlqJobIds \cup {dlqId} ELSE dlqJobIds
          /\ dlqHighPriority' = IF accepted >= 3
                                THEN dlqHighPriority \cup {dlqId}
                                ELSE dlqHighPriority
          /\ IF ReleasesInFinally(w)
             THEN /\ workers' = [workers EXCEPT
                                    ![j].pc = "release",
                                    ![j].dlqError = dlqError,
                                    ![j].error = ThrownAfterQuarantine(w, dlqError)]
                  /\ UNCHANGED jobs
             ELSE /\ workers' = [workers EXCEPT
                                    ![j].pc = "done",
                                    ![j].dlqError = dlqError,
                                    ![j].error = ThrownAfterQuarantine(w, dlqError)]
                  /\ jobs' = [jobs EXCEPT ![j].state = "failed"]
    /\ UNCHANGED <<stalled, env, operator, compensationIndex, calls, idempotent, locks, registry, dlqProcessed,
                   compensationFailures, crashes, expiries>>

\* job.updateProgress(100) and the return of the result
UpdateProgressDone(j) ==
    LET w == workers[j] IN
    /\ w.pc = "progress100"
    /\ jobs' = [jobs EXCEPT ![j].progress = 100]
    /\ workers' = [workers EXCEPT ![j].pc = "release", ![j].succeeded = TRUE]
    /\ UNCHANGED <<stalled, env, operator, compensationIndex, calls, idempotent, locks, registry, dlq, dlqJobIds,
                   dlqHighPriority, dlqProcessed, compensationFailures, log, crashes, expiries, storeErrors>>

\* finally: transactionManager.releaseLock(finalResourceIdentifiers, job.id)
ReleaseLock(j) ==
    LET w == workers[j] IN
    /\ w.pc = "release"
    /\ locks' = ReleaseLockInternal(locks, w.lockKeys, j)
    /\ workers' = [workers EXCEPT ![j].pc = "done", ![j].releaseCalled = TRUE]
    /\ jobs' = [jobs EXCEPT ![j].state = IF w.succeeded THEN "completed" ELSE "failed"]
    /\ UNCHANGED <<stalled, env, operator, compensationIndex, calls, idempotent, registry, dlq, dlqJobIds,
                   dlqHighPriority, dlqProcessed, compensationFailures, log, crashes, expiries, storeErrors>>

\* a handler of the failed event that quarantines the job once more
FailedHandlerQuarantines(records, j) ==
    records \cup {DlqHash(<<j, Cardinality({r \in records : r.originalJobId = j}) + 1>>,
                          DlqDataOf(j, jobs[j].data, workers[j].error))}

\* what onFailed does to the quarantine: it only logs
FailedHandlerRecords(records, j) == records

\* @OnWorkerEvent('failed') onFailed(job, error)
OnFailed(j) ==
    /\ jobs[j].state = "failed"
    /\ jobs[j].failedEvents < MaxFailedEvents
    /\ jobs' = [jobs EXCEPT ![j].failedEvents = @ + 1]
    /\ dlq' = FailedHandlerRecords(dlq, j)
    /\ UNCHANGED <<stalled, env, operator, compensationIndex, calls, idempotent, locks, workers, registry, dlqJobIds,
                   dlqHighPriority, dlqProcessed, compensationFailures, log, crashes,
                   expiries, storeErrors>>

(***************************************************************************)
(* Rejected writes to the job store                                        *)
(***************************************************************************)
\* the invocation once a write of the loop body was rejected: the error is
\* caught by catch (stepError) of step i
CaughtByStepCatch(w, data) ==
    [w EXCEPT !.pc = "markFailed", !.error = StoreError, !.unsaved = data]

\* the invocation once a write outside the try of the loop body was rejected:
\* the error reaches catch (error) of process()
CaughtByOuterCatch(w, data) ==
    [w EXCEPT !.pc = "dlq", !.error = StoreError, !.unsaved = data]

\* job.updateProgress(...) of the loop body rejects
UpdateProgressRejected(j) ==
    LET w == workers[j] IN
    /\ w.pc = "progress"
    /\ MayRefuse
    /\ storeErrors' = storeErrors + 1
    /\ workers' = [workers EXCEPT ![j] = CaughtByStepCatch(w, w.unsaved)]
    /\ UNCHANGED <<stalled, env, operator, compensationIndex, calls, idempotent, jobs, locks, registry, dlq,
                   dlqJobIds, dlqHighPriority, dlqProcessed, compensationFailures, log,
                   crashes, expiries>>

\* job.updateData rejects inside updateJobStepStatus(job, i, 'in_progress')
MarkInProgressRejected(j) ==
    LET w == workers[j] IN
    /\ w.pc = "markInProgress"
    /\ MayRefuse
    /\ storeErrors' = storeErrors + 1
    /\ workers' = [workers EXCEPT ![j] = CaughtByStepCatch(w,
            UpdateJobStepStatus(InMemoryData(j), w.i, "in_progress", NotPassed))]
    /\ UNCHANGED <<stalled, env, operator, compensationIndex, calls, idempotent, jobs, locks, registry, dlq,
                   dlqJobIds, dlqHighPriority, dlqProcessed, compensationFailures, log,
                   crashes, expiries>>

\* job.updateData rejects inside updateJobStepStatus(job, i, 'completed',
\* result): executionResults.push is not reached
MarkCompletedRejected(j) ==
    LET w == workers[j] IN
    /\ w.pc = "markCompleted"
    /\ MayRefuse
    /\ storeErrors' = storeErrors + 1
    /\ workers' = [workers EXCEPT ![j] = CaughtByStepCatch(w,
            UpdateJobStepStatus(InMemoryData(j), w.i, "completed", Passed(w.result)))]
    /\ UNCHANGED <<stalled, env, operator, compensationIndex, calls, idempotent, jobs, locks, registry, dlq,
                   dlqJobIds, dlqHighPriority, dlqProcessed, compensationFailures, log,
                   crashes, expiries>>

\* job.updateData rejects inside updateJobStepStatus(job, i, 'failed') of
\* catch (stepError): the rejection leaves the catch block
MarkFailedRejected(j) ==
    LET w == workers[j] IN
    /\ w.pc = "markFailed"
    /\ MayRefuse
    /\ storeErrors' = storeErrors + 1
    /\ workers' = [workers EXCEPT ![j] = CaughtByOuterCatch(w,
            UpdateJobStepStatus(InMemoryData(j), w.i, "failed", NotPassed))]
    /\ UNCHANGED <<stalled, env, operator, compensationIndex, calls, idempotent, jobs, locks, registry, dlq,
                   dlqJobIds, dlqHighPriority, dlqProcessed, compensationFailures, log,
                   crashes, expiries>>

\* job.updateProgress(100) rejects after the loop
UpdateProgressDoneRejected(j) ==
    LET w == workers[j] IN
    /\ w.pc = "progress100"
    /\ MayRefuse
    /\ storeErrors' = storeErrors + 1
    /\ workers' = [workers EXCEPT ![j] = CaughtByOuterCatch(w, w.unsaved)]
    /\ UNCHANGED <<stalled, env, operator, compensationIndex, calls, idempotent, jobs, locks, registry, dlq,
                   dlqJobIds, dlqHighPriority, dlqProcessed, compensationFailures, log,
                   crashes, expiries>>

(***************************************************************************)
(* Environment                                                             *)
(***************************************************************************)
\* the worker process dies inside process(); the queue redelivers the job
Crash(j) ==
    /\ workers[j].pc \notin {"idle", "done"}
    /\ MayCrash
    /\ crashes' = crashes + 1
    /\ workers' = [workers EXCEPT ![j] = IdleWorker]
    /\ jobs' = [jobs EXCEPT ![j].state = "waiting"]
    /\ UNCHANGED <<stalled, env, operator, compensationIndex, calls, idempotent, locks, registry, dlq, dlqJobIds,
                   dlqHighPriority, dlqProcessed, compensationFailures, log,
                   expiries, storeErrors>>

\* a key that is created without a TTL stays until it is deleted
NeverExpires(ttl) == FALSE

\* a key created with SET ... EX ttl is deleted by the key-value service once
\* ttl seconds have passed
KeyExpires(ttl) == ttl > 0

\* the TTL of a lock key (EX ttl) runs out
Expire(k) ==
    /\ locks[k] # Nil
    /\ KeyExpires(WorkerLockTtl(env))
    /\ expiries < MaxExpiries
    /\ expiries' = expiries + 1
    /\ locks' = [locks EXCEPT ![k] = Nil]
    /\ UNCHANGED <<stalled, env, operator, compensationIndex, calls, idempotent, jobs, workers, registry, dlq, dlqJobIds,
                   dlqHighPriority, dlqProcessed, compensationFailures, log,
                   crashes, storeErrors>>

\* the coordinator, the worker and the crashes of the worker process
NextWorker ==
    \/ \E q \in Reqs : ExecuteGet(q)
    \/ \E q \in Reqs : ExecuteAdd(q)
    \/ \E q \in Reqs : ExecuteSet(q)
    \/ \E j \in JobIds : ProcessStart(j)
    \/ \E j \in JobIds : AcquireLock(j)
    \/ \E j \in JobIds : AcquireRollback(j)
    \/ \E j \in JobIds : UpdateProgress(j)
    \/ \E j \in JobIds : MarkInProgress(j)
    \/ \E j \in JobIds : ExecuteStep(j)
    \/ \E j \in JobIds : MarkCompleted(j)
    \/ \E j \in JobIds : MarkFailed(j)
    \/ \E j \in JobIds : Compensate(j)
    \/ \E j \in JobIds : AddToDLQ(j)
    \/ \E j \in JobIds : UpdateProgressDone(j)
    \/ \E j \in JobIds : ReleaseLock(j)
    \/ \E j \in JobIds : Crash(j)

\* the coordinator, the worker and the faults of their environment
NextSaga ==
    \/ NextWorker
    \/ \E k \in LockKeys : Expire(k)

\* Registry runs: one saga of three steps whose bindings change while it runs,
\* next to a job on another resource that fails at its first step.
RegistryWorkloads ==
    {<<Args(<<"reserve", "charge", "notify">>, NotPassed, Undefined),
       Args(<<"invalidate_cache">>, Passed(<<User2>>), "K")>>}

InitRegistry == InitWith(RegistryWorkloads)

\* the names re-registered, and the names unregistered, at run time
ReRegisteredNames == {"charge"}
UnregisteredNames == {"reserve"}

\* the registry is changed once in a behaviour, and in none where the
\* key-value service has refused a command
MayChangeRegistry == registry = BootRegistry /\ storeErrors = 0

\* stepRegistry.register(name, ...) for a name that is already bound
Register(name) ==
    /\ name \in ReRegisteredNames
    /\ MayChangeRegistry
    /\ registry' = RegistryRegister(registry, name, LatestRegistry[name])
    /\ UNCHANGED <<stalled, env, operator, compensationIndex, calls, idempotent, jobs, locks, workers, dlq, dlqJobIds,
                   dlqHighPriority, dlqProcessed, compensationFailures, log, crashes,
                   expiries, storeErrors>>

\* stepRegistry.unregister(name)
Unregister(name) ==
    /\ name \in UnregisteredNames
    /\ MayChangeRegistry
    /\ registry' = RegistryUnregister(registry, name)
    /\ UNCHANGED <<stalled, env, operator, compensationIndex, calls, idempotent, jobs, locks, workers, dlq, dlqJobIds,
                   dlqHighPriority, dlqProcessed, compensationFailures, log, crashes,
                   expiries, storeErrors>>

Next ==
    \/ NextSaga
    \/ \E j \in JobIds : OnFailed(j)

NextRegistry ==
    \/ NextSaga
    \/ \E name \in StepNames : Register(name)
    \/ \E name \in StepNames : Unregister(name)

\* TTL runs: a two-step saga and a job on another resource, in a process
\* whose environment leaves the variable unset or sets it
TtlWorkloads ==
    {<<Args(<<"reserve", "charge">>, NotPassed, Undefined),
       Args(<<"invalidate_cache">>, Passed(<<User2>>), "K")>>}

TtlSettings == {UnsetEnv, <<"3", "0">>, <<"6", "0">>}

InitTtl == InitState(TtlWorkloads) /\ env \in TtlSettings

(***************************************************************************)
(* Operator calls: DLQService.markAsManuallyProcessed, DLQService.getStats *)
(* and CompensationService.retryCompensationFailure                        *)
(***************************************************************************)
\* an id no record of the quarantine has
UnknownDlqId == <<0, 0>>

\* the ids an operator passes: those of the records and one of no record
DlqIds == {r.id : r \in dlq} \cup {UnknownDlqId}

\* every id a record can have, and the unknown one
AllDlqIds == (JobIds \X (1..MaxAttempts)) \cup {UnknownDlqId}

ProcessorNotes == {"refunded by hand"}

\* new Date().toISOString() at the operator's next call: a later call reads a
\* later time
IsoTimes == <<"T1", "T2", "T3", "T4">>

NowIso(history) == IsoTimes[Len(history) + 1]

\* the hash hset creates when the key dlq:<dlqId> does not exist
EmptyHash(dlqId) ==
    [id |-> dlqId, originalJobId |-> Nil, failureReason |-> Undefined,
     completedBenefits |-> Undefined, failedStep |-> Undefined,
     priority |-> Undefined, canRetry |-> Undefined,
     failedStepIndex |-> Undefined, manuallyProcessed |-> Undefined,
     processorNote |-> Undefined, processedAt |-> Undefined]

\* hset dlq:<dlqId> {manuallyProcessed, processorNote, processedAt}
HsetProcessed(records, dlqId, processorNote, now) ==
    LET old == {r \in records : r.id = dlqId}
        hash == IF old = {} THEN EmptyHash(dlqId) ELSE CHOOSE r \in old : TRUE
    IN  (records \ old)
            \cup {[hash EXCEPT !.manuallyProcessed = "true",
                              !.processorNote = processorNote,
                              !.processedAt = now]}

\* a call that leaves the id in the index
SremNothing(index, member) == index

\* srem <index> <member>
Srem(index, member) == index \ {member}

\* sadd <index> <member>
Sadd(index, member) == index \cup {member}

\* one call of the operator, as the history keeps it
OperatorCall(op, target, note, accepted, returned, invoked, raised, with) ==
    [op |-> op, target |-> target, note |-> note, accepted |-> accepted,
     returned |-> returned, invoked |-> invoked, raised |-> raised, with |-> with]

\* an operator calls while no fault has been injected
OperatorMayCall ==
    /\ Len(operator) < MaxOperatorCalls
    /\ crashes = 0
    /\ storeErrors = 0
    /\ registry = BootRegistry

\* DLQService.markAsManuallyProcessed(dlqId, processorNote): hset, srem
\* dlq:job_ids, srem dlq:high_priority, sadd dlq:processed; accepted counts the
\* commands the key-value service accepted before it refused one (the call
\* then rejects)
MarkAsManuallyProcessed(dlqId, processorNote) ==
    /\ OperatorMayCall
    /\ dlqId \in DlqIds
    /\ \E accepted \in 0..4 :
          /\ storeErrors' = IF accepted < 4 THEN storeErrors + 1 ELSE storeErrors
          /\ dlq' = IF accepted >= 1
                    THEN HsetProcessed(dlq, dlqId, processorNote, NowIso(operator))
                    ELSE dlq
          /\ dlqJobIds' = IF accepted >= 2 THEN Srem(dlqJobIds, dlqId) ELSE dlqJobIds
          /\ dlqHighPriority' =
                IF accepted >= 3 THEN Srem(dlqHighPriority, dlqId) ELSE dlqHighPriority
          /\ dlqProcessed' =
                IF accepted >= 4 THEN Sadd(dlqProcessed, dlqId) ELSE dlqProcessed
          /\ operator' = Append(operator,
                OperatorCall("markAsManuallyProcessed", dlqId, processorNote,
                             accepted, accepted = 4, FALSE, FALSE, NullResult))
    /\ UNCHANGED <<stalled, env, compensationIndex, calls, idempotent, jobs, locks, workers,
                   registry, compensationFailures, log, crashes, expiries>>

\* DLQService.getStats(): the sizes of the three index sets (oldestFailure, a
\* wall-clock time, is left out)
GetStats ==
    [totalActive |-> Cardinality(dlqJobIds),
     highPriority |-> Cardinality(dlqHighPriority),
     totalProcessed |-> Cardinality(dlqProcessed)]

\* DLQService.getAllActiveDLQ(): the hashes of the ids in dlq:job_ids; the
\* fields hset stored as text come back as text (canRetry among them)
GetAllActiveDLQ == {r \in dlq : r.id \in dlqJobIds}

\* the truth value JavaScript gives a text: every text but the empty one
Truthy(text) == text # ""

\* SimpleTransactionManager.getDLQRetryableJobs():
\* activeDLQ.filter((item) => item.canRetry).map(...)
GetDLQRetryableJobs ==
    {[jobId |-> item.id,
      metadata |-> [originalJobId |-> item.originalJobId,
                    failureReason |-> item.failureReason,
                    completedBenefits |-> item.completedBenefits,
                    canRetry |-> item.canRetry]] :
        item \in {r \in GetAllActiveDLQ : Truthy(r.canRetry)}}

\* JSON.stringify(value): a text that denotes the value
JsonStringify(value) == <<value>>

\* the value of `{}`
EmptyObject == <<"{}">>

\* JSON.parse(text || '{}')
JsonParseOrEmpty(text) == IF Len(text) = 0 THEN EmptyObject ELSE text[1]

\* a key no record of a compensation failure has
MissingFailureKey == <<0, "audit">>

\* the keys an operator passes: those of the records, of the index, and one
\* of no record
FailureKeys ==
    {r.key : r \in compensationFailures} \cup compensationIndex \cup {MissingFailureKey}

\* every key a record can have, and the missing one
AllFailureKeys == (JobIds \X StepNames) \cup {MissingFailureKey}

\* what one call of retryCompensationFailure can come to: what it returns,
\* whether it invoked compensate (with which argument, and whether that
\* raised), the records and the index it leaves, and the number of commands
\* the key-value service accepted (3: hgetall, del and srem)
RetryOutcome(returned, invoked, raised, with, records, index, accepted) ==
    [returned |-> returned, invoked |-> invoked, raised |-> raised, with |-> with,
     records |-> records, index |-> index, accepted |-> accepted]

RetryOutcomes(records, index, reg, failureKey) ==
    LET found == {r \in records : r.key = failureKey}
        kept(invoked, raised, with, accepted) ==
            RetryOutcome(FALSE, invoked, raised, with, records, index, accepted)
    IN  \* hgetall rejects: catch, return false
        {kept(FALSE, FALSE, NullResult, 0)}
        \cup
        IF found = {}
        THEN \* if (!failure.jobId) return false
             {kept(FALSE, FALSE, NullResult, 3)}
        ELSE LET failure == CHOOSE r \in found : TRUE
                 stepFunction == RegistryGet(reg, failure.stepName)
                 stepResult == JsonParseOrEmpty(JsonStringify(failure.stepResult))
             IN  IF failure.retryable # "true"
                 THEN {kept(FALSE, FALSE, NullResult, 3)}
                 ELSE IF ~stepFunction.compensate
                 THEN {kept(FALSE, FALSE, NullResult, 3)}
                 ELSE \* compensate throws: catch, return false
                      {kept(TRUE, TRUE, stepResult, 3) :
                            m \in stepFunction.compensateThrows}
                      \cup
                      \* compensate returns; del rejects: catch, return false
                      {kept(TRUE, FALSE, stepResult, 1)}
                      \cup
                      \* del is done; srem rejects: catch, return false
                      {RetryOutcome(FALSE, TRUE, FALSE, stepResult,
                                    records \ found, index, 2)}
                      \cup
                      {RetryOutcome(TRUE, TRUE, FALSE, stepResult,
                                    records \ found, Srem(index, failureKey), 3)}

\* CompensationService.retryCompensationFailure(failureKey)
RetryCompensationFailure(failureKey) ==
    /\ OperatorMayCall
    /\ failureKey \in FailureKeys
    /\ \E o \in RetryOutcomes(compensationFailures, compensationIndex, registry,
                               failureKey) :
          /\ storeErrors' = IF o.accepted < 3 THEN storeErrors + 1 ELSE storeErrors
          /\ compensationFailures' = o.records
          /\ compensationIndex' = o.index
          /\ operator' = Append(operator,
                OperatorCall("retryCompensationFailure", failureKey, "",
                             o.accepted, o.returned, o.invoked, o.raised, o.with))
    /\ UNCHANGED <<stalled, env, calls, idempotent, jobs, locks, workers, registry, dlq,
                   dlqJobIds, dlqHighPriority, dlqProcessed, log, crashes, expiries>>

\* Operator runs: a saga whose compensation fails and a saga that is
\* quarantined for a step nobody registered
OperatorWorkloads ==
    {<<Args(<<"charge", "notify">>, NotPassed, Undefined),
       Args(<<"invalidate_cache">>, Passed(<<User2>>), "K")>>}

InitOperator == InitWith(OperatorWorkloads)

NextOperator ==
    \/ NextWorker
    \/ \E dlqId \in AllDlqIds : \E processorNote \in ProcessorNotes :
            MarkAsManuallyProcessed(dlqId, processorNote)
    \/ \E failureKey \in AllFailureKeys : RetryCompensationFailure(failureKey)

\* Expiry runs: a job that takes two keys and a job that takes the second of them; time passes without bound, so every key that is left
\* behind outlives its TTL.
ExpiryWorkloads ==
    {<<Args(<<"reserve", "charge">>, Passed(<<Order7, User1>>), Undefined),
       Args(<<"invalidate_cache">>, Passed(<<User1>>), "K")>>}

InitExpiry == InitWith(ExpiryWorkloads)

\* the TTL of a lock key runs out, any number of times in a behaviour
Elapse(k) ==
    /\ locks[k] # Nil
    /\ KeyExpires(WorkerLockTtl(env))
    /\ locks' = [locks EXCEPT ![k] = Nil]
    /\ UNCHANGED <<stalled, env, operator, compensationIndex, calls, idempotent, jobs, workers, registry, dlq, dlqJobIds,
                   dlqHighPriority, dlqProcessed, compensationFailures, log,
                   crashes, expiries, storeErrors>>

NextExpiry ==
    \/ NextWorker
    \/ \E k \in LockKeys : Elapse(k)

\* Compensation runs: a saga whose third step fails after two steps whose
\* compensate may raise, and a job that contends with it; the registry holds
\* compensate functions that raise errors of every class
CompensationWorkloads ==
    {<<Args(<<"reserve", "charge", "notify">>, NotPassed, Undefined),
       Args(<<"charge">>, NotPassed, "K")>>}

InitCompensation ==
    /\ InitStore(CompensationWorkloads)
    /\ registry = CompensationRegistry
    /\ env = UnsetEnv

\* Stalled runs: a saga of two steps next to a job on another resource; the
\* queue may give up on an invocation that is still running
StallWorkloads ==
    {<<Args(<<"reserve", "charge">>, NotPassed, Undefined),
       Args(<<"audit">>, Passed(<<User2>>), "K")>>}

InitStall == InitWith(StallWorkloads)

\* The queue's stalled-job check finds that the lock of an active job was not
\* renewed and moves the job back to waiting; the invocation it gave up on
\* is still alive and about to enter its finally block. A redelivery of this
\* kind counts as one of the crashes of a behaviour.
Stall(j) ==
    /\ workers[j].pc = "release"
    /\ stalled[j].pc = "idle"
    /\ MayCrash
    /\ crashes' = crashes + 1
    /\ stalled' = [stalled EXCEPT ![j] = workers[j]]
    /\ workers' = [workers EXCEPT ![j] = IdleWorker]
    /\ jobs' = [jobs EXCEPT ![j].state = "waiting"]
    /\ UNCHANGED <<env, operator, compensationIndex, calls, idempotent, locks, registry, dlq,
                   dlqJobIds, dlqHighPriority, dlqProcessed, compensationFailures, log,
                   expiries, storeErrors>>

\* finally of the invocation the queue gave up on: releaseLock with the
\* job's id; the queue ignores the outcome of that invocation
StalledRelease(j) ==
    /\ stalled[j].pc = "release"
    /\ locks' = ReleaseLockInternal(locks, stalled[j].lockKeys, j)
    /\ stalled' = [stalled EXCEPT ![j].pc = "done", ![j].releaseCalled = TRUE]
    /\ UNCHANGED <<env, operator, compensationIndex, calls, idempotent, jobs, workers, registry,
                   dlq, dlqJobIds, dlqHighPriority, dlqProcessed, compensationFailures,
                   log, crashes, expiries, storeErrors>>

NextStall ==
    \/ NextSaga
    \/ \E j \in JobIds : Stall(j)
    \/ \E j \in JobIds : StalledRelease(j)

\* Resource runs: the first call passes an empty array of resources, the
\* second leaves the argument out
ResourceWorkloads ==
    {<<Args(<<"reserve", "charge">>, Passed(<<>>), Undefined),
       Args(<<"charge">>, NotPassed, "K")>>}

InitResources == InitWith(ResourceWorkloads)

\* Job-store runs: a saga of two steps whose second step may fail, next to a
\* job on another resource; the job store may reject a write of process()
JobStoreWorkloads ==
    {<<Args(<<"reserve", "charge">>, NotPassed, Undefined),
       Args(<<"audit">>, Passed(<<User2>>), "K")>>}

InitJobStore == InitWith(JobStoreWorkloads)

NextJobStore ==
    \/ NextWorker
    \/ \E j \in JobIds : UpdateProgressRejected(j)
    \/ \E j \in JobIds : MarkInProgressRejected(j)
    \/ \E j \in JobIds : MarkCompletedRejected(j)
    \/ \E j \in JobIds : MarkFailedRejected(j)
    \/ \E j \in JobIds : UpdateProgressDoneRejected(j)

Spec == Init /\ [][Next]_vars
SpecJobStore == InitJobStore /\ [][NextJobStore]_vars
SpecStall == InitStall /\ [][NextStall]_vars
SpecResources == InitResources /\ [][NextWorker]_vars
SpecOperator == InitOperator /\ [][NextOperator]_vars
SpecCompensation == InitCompensation /\ [][NextWorker]_vars
\* the key-value service does delete a key whose TTL has run out
SpecExpiry ==
    InitExpiry /\ [][NextExpiry]_vars /\ \A k \in LockKeys : WF_vars(Elapse(k))
SpecTtl == InitTtl /\ [][NextSaga]_vars
SpecRegistry == InitRegistry /\ [][NextRegistry]_vars
SpecLock == InitLock /\ [][Next]_vars
SpecIdempotency == InitIdempotency /\ [][Next]_vars

(***************************************************************************)
(* Properties                                                              *)
(***************************************************************************)
\* the invocation of job j is between a successful acquireLock and the end of
\* its releaseLock
Executing(j) == workers[j].lockAcquired /\ workers[j].pc \notin {"idle", "done"}

KeysOf(j) == Range(workers[j].lockKeys)

\* C1: for every lock key, at most one of the invocations whose resource set
\* contains the key is in its step-executing phase, TTL expiry included.
C1_MutualExclusion ==
    \A a, b \in JobIds :
        (a # b /\ Executing(a) /\ Executing(b)) => KeysOf(a) \cap KeysOf(b) = {}

\* the execute events of attempt a of job j
ExecuteEvents(j, a) ==
    SelectSeq(log[j], LAMBDA e : e.ev = "execute" /\ e.attempt = a)

\* the compensate events of attempt a of job j
CompensateEvents(j, a) ==
    SelectSeq(log[j], LAMBDA e : e.ev = "compensate" /\ e.attempt = a)

\* the set-if-absent of job a's acquireLock found a key held by another job
BlockedByOther(a) == workers[a].blockedBy \notin {Nil, a}

\* what holds of an invocation that met a key held by another job
C2_BusyState ==
    \A a \in JobIds :
        BlockedByOther(a) =>
            /\ workers[a].pc \in {"rollback", "dlq", "done"}
            /\ ~workers[a].lockAcquired
            /\ ~workers[a].releaseCalled
            /\ ExecuteEvents(a, jobs[a].attemptsMade) = <<>>
            /\ workers[a].pc \in {"dlq", "done"} =>
                /\ workers[a].error = ResourceBusyError
                /\ Includes(ErrorMessage(workers[a].error,
                                         jobs[a].data.resourceIdentifiers),
                            BusyPhrase)
            /\ workers[a].pc = "done" => jobs[a].state = "failed"

C2_BusyStep ==
    \A a \in JobIds :
        (BlockedByOther(a) /\ workers'[a] # workers[a]) =>
            \A k \in LockKeys : locks[k] # a => locks'[k] = locks[k]

\* C2: when job A's acquireLock meets a key held by a different job B, A's
\* invocation ends with the ResourceBusy error, invokes no execute, never
\* calls releaseLock, and no step of A changes a key that holds another job.
C2_ResourceBusy == []C2_BusyState /\ [][C2_BusyStep]_vars

\* job a failed on a key of job b, is done, and b still holds that key
C2_Witness ==
    \E a \in JobIds :
        /\ BlockedByOther(a)
        /\ workers[a].pc = "done"
        /\ Len(workers[a].acquiredKeys) > 0
        /\ \E k \in KeysOf(a) : locks[k] = workers[a].blockedBy

\* the step in which job x's releaseLock runs
ReleaseStep(x) == workers[x].pc = "release" /\ workers'[x].pc = "done"

\* what one releaseLock of job x does to the keys
C3_OwnerVerifiedReleaseStep ==
    \A x \in JobIds :
        ReleaseStep(x) =>
            /\ \A k \in LockKeys :
                  locks'[k] = IF k \in KeysOf(x) /\ locks[k] = x THEN Nil ELSE locks[k]
            /\ workers'[x].releaseCalled
            /\ workers'[x].error = workers[x].error
            /\ jobs'[x].state = IF workers[x].succeeded THEN "completed" ELSE "failed"

\* C3: releaseLock(resources, jobX) deletes exactly the keys of the resource
\* set whose value is jobX; a key that holds jobY # jobX keeps jobY, the call
\* does not fail, and jobY's own releaseLock deletes that key.
C3_OwnerVerifiedRelease == [][C3_OwnerVerifiedReleaseStep]_vars

\* jobX has released after its lock expired, and jobY, which acquired the key
\* since, still holds it
C3_Witness ==
    \E x, y \in JobIds :
        /\ x # y
        /\ workers[x].pc = "done" /\ workers[x].releaseCalled
        /\ Executing(y)
        /\ \E k \in KeysOf(x) \cap KeysOf(y) : locks[k] = y

ResourcesOf(j) == Range(jobs[j].data.resourceIdentifiers)

\* C8: an invocation never fails acquireLock on a key held by a job whose
\* resource set is disjoint from its own, and a key is only ever held by a
\* job whose resource set names it; two such invocations run side by side.
C8_DisjointParallel ==
    /\ \A a \in JobIds :
          BlockedByOther(a) =>
              ResourcesOf(a) \cap ResourcesOf(workers[a].blockedBy) # {}
    /\ \A k \in LockKeys :
          locks[k] # Nil =>
              k \in Range(GenerateResourceLockKeys(jobs[locks[k]].data.resourceIdentifiers))

\* two jobs with disjoint resource sets have both run all their steps and
\* hold their locks at the same time, no key having expired
C8_Witness ==
    \E a, b \in JobIds :
        /\ a # b
        /\ ResourcesOf(a) \cap ResourcesOf(b) = {}
        /\ workers[a].pc = "release" /\ workers[a].succeeded
        /\ workers[b].pc = "release" /\ workers[b].succeeded
        /\ \A k \in KeysOf(a) : locks[k] = a
        /\ \A k \in KeysOf(b) : locks[k] = b
        /\ expiries = 0

IsPrefix(s, t) == Len(s) <= Len(t) /\ SubSeq(t, 1, Len(s)) = s

\* what was compensated, and with which result, in attempt a of job j
Compensated(j, a) ==
    LET evs == CompensateEvents(j, a)
    IN  [n \in 1..Len(evs) |-> [step |-> evs[n].step, result |-> evs[n].result]]

\* the execute events of step idx that returned a result in attempt a of job j
Returned(j, a, idx) ==
    SelectSeq(ExecuteEvents(j, a), LAMBDA e : e.index = idx /\ ~e.threw)

\* the steps below k of attempt a that have a compensate, last first, each
\* with the result its execute returned in that attempt
RECURSIVE ExpectedCompensations(_, _, _)
ExpectedCompensations(j, a, k) ==
    IF k = 0 THEN <<>>
    ELSE LET evs == Returned(j, a, k - 1)
             name == Steps(j)[k].name
         IN  (IF registry[name].compensate
              THEN <<[step |-> name, result |-> evs[1].result]>>
              ELSE <<>>) \o ExpectedCompensations(j, a, k - 1)

\* C4: in an invocation that started at step 0 and failed at step k (execute
\* raised, or the name is not registered), compensate is invoked exactly once
\* for each of steps k-1, ..., 0 that registers one, in that order, with the
\* result the step returned, and never for step k or a later step.
C4_CompensationOrder ==
    \A j \in JobIds :
        LET w == workers[j]
            a == jobs[j].attemptsMade
        IN  (w.pc # "idle" /\ w.currentStepIndex = 0) =>
                IF w.error.kind \in {"notfound", "step"}
                THEN /\ \A idx \in 0..(w.i - 1) : Len(Returned(j, a, idx)) = 1
                     /\ IsPrefix(Compensated(j, a), ExpectedCompensations(j, a, w.i))
                     /\ w.pc \in {"dlq", "release", "done"} =>
                            Compensated(j, a) = ExpectedCompensations(j, a, w.i)
                ELSE Compensated(j, a) = <<>>

\* an invocation that started at step 0 failed at its third step and has
\* compensated the two steps before it
C4_Witness ==
    \E j \in JobIds :
        /\ workers[j].pc = "done" /\ workers[j].currentStepIndex = 0
        /\ workers[j].error.kind = "step" /\ workers[j].i = 2
        /\ Len(Compensated(j, jobs[j].attemptsMade)) = 2

\* C5: an invocation that finds currentStepIndex = s persisted, steps 0..s-1
\* being completed, invokes execute for steps s, s+1, ... in index order and
\* for no step below s; when all of them succeed no compensate is invoked.
C5_ResumeCorrectness ==
    \A j \in JobIds :
        LET w == workers[j]
            a == jobs[j].attemptsMade
            s == w.currentStepIndex
            evs == ExecuteEvents(j, a)
        IN  (w.pc # "idle" /\ \A n \in 1..s : Steps(j)[n].status = "completed") =>
                /\ Len(evs) <= Len(Steps(j)) - s
                /\ \A n \in 1..Len(evs) : evs[n].index = s + n - 1
                /\ w.succeeded =>
                        /\ Len(evs) = Len(Steps(j)) - s
                        /\ CompensateEvents(j, a) = <<>>

\* a redelivered job resumed above step 0 and ran the remaining steps
C5_Witness ==
    \E j \in JobIds :
        /\ jobs[j].attemptsMade = 2
        /\ workers[j].currentStepIndex > 0
        /\ workers[j].currentStepIndex < Len(Steps(j)) - 1
        /\ workers[j].succeeded /\ workers[j].pc = "done"

\* C6: once steps[i].status = completed has been persisted, no later
\* invocation on the same job invokes execute for step i, the last step
\* included.
C6_NoRerunAfterCommit ==
    \A j \in JobIds :
        \A m, n \in 1..Len(log[j]) :
            (m < n /\ log[j][m].ev = "completed" /\ log[j][n].ev = "execute") =>
                log[j][m].index # log[j][n].index

\* C7: two execute() calls with the same idempotencyKey return the same jobId,
\* exactly one job carrying the key is enqueued, and idempotent:<key> holds
\* that jobId.
C7_Idempotency ==
    \A p, q \in Reqs :
        LET key == calls[p].args.idempotencyKey IN
        (p # q /\ key # Undefined /\ calls[q].args.idempotencyKey = key
              /\ calls[p].pc = "done" /\ calls[q].pc = "done") =>
            /\ calls[p].returned = calls[q].returned
            /\ Cardinality({j \in JobIds : /\ jobs[j].state # "none"
                                           /\ jobs[j].data.idempotencyKey = key}) = 1
            /\ idempotent[key] = calls[p].returned

\* a quarantine record is active: indexed and not yet marked as handled
IsActive(r) == r.id \in dlqJobIds /\ r.id \notin dlqProcessed

\* C9: whatever the step name, a failure caused by an unregistered step is
\* quarantined with priority = high and canRetry = true, in both the active
\* and the high-priority index.
C9_RegistryMissRetryable ==
    \A r \in dlq :
        r.failureReason.kind = "notfound" =>
            /\ r.priority = "high"
            /\ r.canRetry = "true"
            /\ r.id \notin dlqProcessed => r.id \in dlqJobIds \cap dlqHighPriority

\* the message names no term of retryableErrors and no term of nonRetryableErrors
IsGenericMessage(message) ==
    /\ \A n \in 1..Len(retryableErrors) : ~Includes(message, retryableErrors[n])
    /\ \A n \in 1..Len(nonRetryableErrors) :
          ~Includes(ToLowerCase(message), ToLowerCase(nonRetryableErrors[n]))

IsGenericStepError(error) ==
    error.kind = "step" /\ IsGenericMessage(UserMessageChars(error.message))

\* a command of the addToDLQ call that wrote record r was rejected
WriteRefused(r) ==
    LET writes == SelectSeq(log[r.id[1]], LAMBDA e : e.ev = "quarantine")
    IN  writes[r.id[2]].threw

\* C10: a failure caused by a generic Error thrown by a step's execute is
\* quarantined with priority = normal and canRetry = false; it is in the
\* active index, so counted in totalActive, and not in the high-priority one
\* (the index entry is missing only when the store rejected its sadd).
C10_GenericErrorNormal ==
    \A r \in dlq :
        IsGenericStepError(r.failureReason) =>
            /\ r.priority = "normal"
            /\ r.canRetry = "false"
            /\ r.id \notin dlqHighPriority
            /\ (r.id \notin dlqProcessed /\ ~WriteRefused(r)) => r.id \in dlqJobIds

\* a generic step error has been quarantined
C10_Witness ==
    \E r \in dlq : IsGenericStepError(r.failureReason) /\ IsActive(r)

\* C11: a failure caused by acquireLock returning false (ResourceBusy) is
\* quarantined as retryable: canRetry = true and priority = high.
C11_BusyRetryable ==
    \A r \in dlq :
        r.failureReason.kind = "busy" =>
            r.canRetry = "true" /\ r.priority = "high"

\* job.data.currentStepIndex as persisted
CurrentStepIndex(j) == jobs[j].data.currentStepIndex

C12_NonDecreasingStep ==
    \A j \in JobIds : CurrentStepIndex(j)' >= CurrentStepIndex(j)

\* C12: across every persisted write by any invocation on the same job
\* (success, failure and resumed runs) currentStepIndex never decreases.
C12_NonDecreasing == [][C12_NonDecreasingStep]_vars

\* a step above step 0 has failed, in a run that had advanced currentStepIndex
C12_Witness ==
    \E j \in JobIds :
        /\ CurrentStepIndex(j) > 0
        /\ Steps(j)[CurrentStepIndex(j) + 1].status = "failed"
        /\ workers[j].pc = "done"

\* the index of the first step at or after position n whose status is pending,
\* len(steps) if there is none
RECURSIVE FirstPendingFrom(_, _)
FirstPendingFrom(steps, n) ==
    IF n > Len(steps) THEN Len(steps)
    ELSE IF steps[n].status = "pending" THEN n - 1
    ELSE FirstPendingFrom(steps, n + 1)

\* C13: in every persisted state of a job, currentStepIndex equals the index
\* of the first step whose status is pending, or len(steps) if all steps are
\* completed.
C13_IndexIsFirstPending ==
    \A j \in JobIds :
        jobs[j].state # "none" =>
            LET steps == Steps(j)
                pending == \E n \in 1..Len(steps) : steps[n].status = "pending"
                completed == \A n \in 1..Len(steps) : steps[n].status = "completed"
            IN  /\ pending => CurrentStepIndex(j) = FirstPendingFrom(steps, 1)
                /\ completed => CurrentStepIndex(j) = Len(steps)

\* C14: in every persisted state of a job, every step with status completed
\* has a smaller index than every step with status pending.
C14_CompletedBeforePending ==
    \A j \in JobIds :
        \A m, n \in 1..Len(Steps(j)) :
            (Steps(j)[m].status = "completed" /\ Steps(j)[n].status = "pending") =>
                m < n

\* a resumed run has completed a further step while a later one is pending
C14_Witness ==
    \E j \in JobIds :
        /\ jobs[j].attemptsMade = 2
        /\ Len(Steps(j)) = 3
        /\ Steps(j)[2].status = "completed"
        /\ Steps(j)[3].status = "pending"
        /\ workers[j].currentStepIndex = 1

AcquireFailed(j) ==
    workers[j].pc \in {"dlq", "release", "done"} /\ ~workers[j].lockAcquired

C16_AllOrNothingState ==
    \A j \in JobIds :
        /\ workers[j].lockAcquired => workers[j].acquiredKeys = workers[j].lockKeys
        /\ AcquireFailed(j) =>
              \A k \in Range(workers[j].acquiredKeys) : locks[k] # j

C16_AllOrNothingStep ==
    \A j \in JobIds :
        (workers[j].pc \in {"acquire", "rollback"} /\ workers'[j] # workers[j]) =>
            \A k \in LockKeys :
                /\ locks[k] \notin {Nil, j} => locks'[k] = locks[k]
                /\ (/\ k \in Range(workers'[j].acquiredKeys)
                    /\ k \notin Range(workers[j].acquiredKeys)) =>
                        locks[k] = Nil /\ locks'[k] = j

TrailCompensations(w) ==
    LET has == SelectSeq(w.executionResults, LAMBDA e : e.stepFunction.compensate)
    IN  [n \in 1..Len(has) |-> [step |-> has[n].step, result |-> has[n].result]]

QuarantineEvents(j, a) ==
    SelectSeq(log[j], LAMBDA e : e.ev = "quarantine" /\ e.attempt = a)

\* the quarantine records of job j
RecordsOf(j) == {r \in dlq : r.originalJobId = j}

LastReturned(j, idx) ==
    LET evs == SelectSeq(log[j], LAMBDA e : /\ e.ev = "execute"
                                            /\ e.index = idx /\ ~e.threw)
    IN  IF Len(evs) = 0 THEN NullResult ELSE evs[Len(evs)].result

\* C19: after an invocation in which every step succeeds, every persisted
\* step is completed with the result its execute returned, the job's lock
\* keys are absent, and no quarantine record exists for the job.
C19_SuccessEndState ==
    \A j \in JobIds :
        (workers[j].succeeded /\ workers[j].pc = "done") =>
            /\ \A n \in 1..Len(Steps(j)) :
                  /\ Steps(j)[n].status = "completed"
                  /\ Steps(j)[n].result = LastReturned(j, n - 1)
            /\ \A k \in KeysOf(j) : locks[k] # j
            /\ RecordsOf(j) = {}

\* C20: inside one invocation, steps[i].status = in_progress with
\* currentStepIndex >= i is persisted before execute of step i, completed and
\* the result are persisted after execute returns, and execute of step i+1
\* comes only after step i's completed write.
C20_StepOrdering ==
    \A j \in JobIds :
        LET w == workers[j] IN
        /\ w.pc \in {"execute", "markCompleted"} =>
              /\ Steps(j)[w.i + 1].status = "in_progress"
              /\ CurrentStepIndex(j) >= w.i
              /\ \A m \in w.currentStepIndex..(w.i - 1) :
                    Steps(j)[m + 1].status = "completed"
        /\ \A n \in 1..Len(log[j]) :
              LET e == log[j][n] IN
              /\ e.ev = "completed" =>
                    /\ n > 1
                    /\ log[j][n - 1].ev = "execute" /\ ~log[j][n - 1].threw
                    /\ log[j][n - 1].attempt = e.attempt
                    /\ log[j][n - 1].index = e.index
                    /\ log[j][n - 1].result = e.result
                    /\ w.pc # "markCompleted" \/ n < Len(log[j])
              /\ (e.ev = "execute" /\ n > 1 /\ log[j][n - 1].attempt = e.attempt) =>
                    /\ log[j][n - 1].ev = "completed"
                    /\ log[j][n - 1].index = e.index - 1

\* the third step of a saga is about to execute
C20_Witness ==
    \E j \in JobIds :
        /\ workers[j].pc = "execute"
        /\ workers[j].i = 2
        /\ workers[j].currentStepIndex = 0

\* a step that writes the persisted payload of job j (job.updateData)
WritesPayload(j) == jobs[j].state # "none" /\ jobs'[j].data # jobs[j].data

\* C28: every write to a job's persisted payload after creation is made at a
\* moment when every lock key of the job's resource set holds the job's jobId.
C28_PayloadUnderLock ==
    [][\A j \in JobIds :
          WritesPayload(j) => \A k \in KeysOf(j) : locks[k] = j]_vars

C29_NeverMutatedStep ==
    \A k \in LockKeys :
        (locks[k] # Nil /\ locks'[k] # Nil) => locks'[k] = locks[k]

\* C29: the value of a lock key changes only from absent to a jobId or from a
\* jobId to absent, never directly from one jobId to a different jobId.
C29_NeverMutated == [][C29_NeverMutatedStep]_vars

\* job a has released a key by its own releaseLock and job b has set it since
C29_Witness ==
    \E a, b \in JobIds :
        /\ a # b
        /\ expiries = 0
        /\ workers[a].releaseCalled /\ workers[a].succeeded
        /\ workers[b].lockAcquired
        /\ \E k \in KeysOf(a) : locks[k] = b

\* the error the invocation of job j caught before it went to the quarantine
IsSagaError(j, error) ==
    LET w == workers[j]
        evs == ExecuteEvents(j, jobs[j].attemptsMade)
        name == Steps(j)[w.i + 1].name
    IN  IF ~w.lockAcquired
        THEN error = IF w.blockedBy # Nil THEN ResourceBusyError ELSE StoreError
        ELSE IF ~registry[name].registered
             THEN error = StepNotFoundError(name)
             ELSE /\ Len(evs) > 0
                  /\ evs[Len(evs)].threw /\ evs[Len(evs)].index = w.i
                  /\ \E m \in registry[name].throws : error = StepError(name, m)

ExecutesOf(j, a, idx) ==
    SelectSeq(ExecuteEvents(j, a), LAMBDA e : e.index = idx)

\* C25: when a worker crashed after persisting steps[i].status = in_progress
\* and before persisting completed, the next invocation on the job invokes
\* execute for step i exactly once and for no step with index < i.
C25_RetryFromInProgress ==
    \A j \in JobIds :
        LET w == workers[j]
            a == jobs[j].attemptsMade
            i == w.currentStepIndex
        IN  (w.pc = "done" /\ a > 1 /\ w.startStatus = "in_progress") =>
                /\ Len(ExecutesOf(j, a, i)) = 1
                /\ \A idx \in 0..(i - 1) : ExecutesOf(j, a, idx) = <<>>

\* the binding of a name that has a given version
BindingOf(name, version) ==
    IF version = "latest" THEN LatestRegistry[name] ELSE BootRegistry[name]

\* the step in which the worker of job j calls execute of a step
InvokesExecute(j) == Len(log'[j]) = Len(log[j]) + 1 /\ log'[j][Len(log'[j])].ev = "execute"

C21_ResolvedAtRunTimeStep ==
    \A j \in JobIds :
        InvokesExecute(j) =>
            LET e == log'[j][Len(log'[j])]
            IN  /\ registry[e.step].registered
                /\ e.fn = registry[e.step].version
                /\ e.fn # TransactionStep(e.step).execute

C21_ResolvedState ==
    \A j \in JobIds :
        \A n \in 1..Len(log[j]) :
            LET c == log[j][n] IN
            c.ev = "compensate" =>
                /\ c.fn # TransactionStep(c.step).compensate
                /\ BindingOf(c.step, c.fn).compensate
                /\ \A m \in 1..(n - 1) :
                      LET e == log[j][m] IN
                      (e.ev = "execute" /\ e.attempt = c.attempt /\ e.step = c.step)
                          => c.fn = e.fn

\* C21: the worker invokes the execute bound to the step's name in the
\* registry at the moment the step runs (the last registered binding) and the
\* compensate of that same binding; the functions of the steps array passed to
\* execute() are never invoked.
C21_ResolvedAtRunTime == []C21_ResolvedState /\ [][C21_ResolvedAtRunTimeStep]_vars

\* a step ran under its boot binding, the name was then re-registered, and the
\* redelivered job ran the step under the new binding
C21_Witness ==
    \E j \in JobIds :
        \E m, n \in 1..Len(log[j]) :
            /\ m < n
            /\ log[j][m].ev = "execute" /\ log[j][n].ev = "execute"
            /\ log[j][m].step = log[j][n].step
            /\ log[j][m].fn = "boot" /\ log[j][n].fn = "latest"

\* what a resumed invocation of job j that failed at step k has to compensate,
\* last step first: the steps it ran itself, under the binding that ran them,
\* and the completed steps of earlier invocations whose name the registry held
\* when the trail was rebuilt
RECURSIVE ResumedCompensations(_, _)
ResumedCompensations(j, k) ==
    IF k = 0 THEN <<>>
    ELSE LET w == workers[j]
             step == Steps(j)[k]
             ran == Returned(j, jobs[j].attemptsMade, k - 1)
             fn == IF k - 1 >= w.currentStepIndex
                   THEN BindingOf(step.name, ran[1].fn)
                   ELSE w.rebuiltFrom[step.name]
         IN  (IF step.status = "completed" /\ fn.registered /\ fn.compensate
              THEN <<[step |-> step.name, result |-> step.result]>>
              ELSE <<>>) \o ResumedCompensations(j, k - 1)

\* the invocation of job j resumed above step 0 and a step of it has failed
ResumedAndFailed(j) ==
    /\ workers[j].currentStepIndex > 0
    /\ workers[j].lockAcquired
    /\ workers[j].pc \in {"compensate", "dlq", "release", "done"}
    /\ workers[j].error.kind \in {"step", "notfound"}

\* C26: a resumed invocation that fails at step i invokes compensate, in
\* descending index order and with the persisted or returned result, for every
\* completed step below i whose name is registered, the steps completed in
\* earlier invocations included; a completed step whose name is not registered
\* is skipped and the others are still compensated.
C26_CompensationAfterResume ==
    \A j \in JobIds :
        LET w == workers[j]
            a == jobs[j].attemptsMade
        IN  ResumedAndFailed(j) =>
                /\ IsPrefix(Compensated(j, a), ResumedCompensations(j, w.i))
                /\ w.pc # "compensate" =>
                        Compensated(j, a) = ResumedCompensations(j, w.i)

\* a resumed invocation failed at its third step; the first step's name was
\* not registered any more, and the second step has been compensated
C26_Witness ==
    \E j \in JobIds :
        /\ ResumedAndFailed(j) /\ workers[j].pc = "done" /\ workers[j].i = 2
        /\ ~workers[j].rebuiltFrom[Steps(j)[1].name].registered
        /\ Steps(j)[1].status = "completed"
        /\ Len(Compensated(j, jobs[j].attemptsMade)) = 1

\* C24: a lock acquired by the worker, without an explicit TTL and through the
\* manager's acquireLock, is created with a TTL equal to the configured
\* TRANSACTION_LOCK_TTL_SECONDS (30 only when the variable is unset).
C24_ConfiguredTtl ==
    \A j \in JobIds :
        Len(workers[j].acquiredKeys) > 0 =>
            workers[j].ttl = ParseInt(ConfiguredTtlText(env))


\* job a's worker died while a held key k and the job has not been handed to
\* a worker since: nothing will call releaseLock for this holding
OrphanKey(a, k) == locks[k] = a /\ workers[a].pc = "idle"

\* a set-if-absent of job b on an absent key takes the key
C27_AcquireAbsentStep ==
    \A b \in JobIds :
        LET w == workers[b]
            n == Len(w.acquiredKeys)
        IN  (/\ w.pc = "acquire"
             /\ n < Len(w.lockKeys)
             /\ workers'[b] # w
             /\ crashes' = crashes
             /\ storeErrors' = storeErrors
             /\ locks[w.lockKeys[n + 1]] = Nil) =>
                /\ locks'[w.lockKeys[n + 1]] = b
                /\ workers'[b].acquiredKeys = Append(w.acquiredKeys, w.lockKeys[n + 1])
                /\ (n + 1 = Len(w.lockKeys)) => workers'[b].lockAcquired

\* C27: when a worker dies after acquiring its locks and releaseLock is never
\* called, each of its lock keys eventually is absent (its TTL runs out), and
\* a set-if-absent of another job on an absent key then succeeds.
C27_CrashHeldLocksExpire ==
    /\ \A a \in JobIds : \A k \in LockKeys : OrphanKey(a, k) ~> (locks[k] = Nil)
    /\ [][C27_AcquireAbsentStep]_vars

\* job a's worker died in its first run after a step had run under its two
\* keys; job b now holds one of them
C27_Witness ==
    \E a, b \in JobIds :
        /\ a # b
        /\ workers[a].pc = "idle"
        /\ jobs[a].attemptsMade = 1
        /\ Len(ExecuteEvents(a, 1)) > 0
        /\ Len(jobs[a].data.resourceIdentifiers) = 2
        /\ workers[b].lockAcquired
        /\ KeysOf(b) # {}
        /\ \A k \in KeysOf(b) :
              /\ locks[k] = b
              /\ k \in Range(GenerateResourceLockKeys(jobs[a].data.resourceIdentifiers))


\* the step is a call of the operator; LastCall is that call
IsOperatorCall(op) ==
    /\ Len(operator') = Len(operator) + 1
    /\ operator'[Len(operator')].op = op

C22_MarkStep ==
    IsOperatorCall("markAsManuallyProcessed") =>
        LET c == operator'[Len(operator')]
            id == c.target
        IN  c.returned =>
                /\ id \notin dlqJobIds'
                /\ id \notin dlqHighPriority'
                /\ id \in dlqProcessed'
                /\ \E r \in dlq' :
                      /\ r.id = id
                      /\ r.processedAt # Undefined
                      /\ r.processorNote = c.note
                /\ GetStats'.totalActive = Cardinality(dlqJobIds \ {id})
                /\ GetStats'.highPriority = Cardinality(dlqHighPriority \ {id})
                /\ GetStats'.totalProcessed = Cardinality(dlqProcessed \cup {id})
                /\ {r \in dlq' : r.id # id} = {r \in dlq : r.id # id}
                /\ dlqJobIds' \ {id} = dlqJobIds \ {id}
                /\ dlqHighPriority' \ {id} = dlqHighPriority \ {id}
                /\ dlqProcessed' \ {id} = dlqProcessed \ {id}

\* C22: after markAsManuallyProcessed(id, note) has completed, id is in
\* neither dlq:job_ids nor dlq:high_priority and is in dlq:processed, its
\* record carries processedAt and the note, getStats counts it as processed and
\* no longer as active or high priority, and every other record and index
\* membership is as before the call.
C22_MarkHandled == [][C22_MarkStep]_vars

\* a completed call has taken a high-priority record out of both active
\* indices while another record stays active
C22_Witness ==
    \E n \in 1..Len(operator) :
        LET c == operator[n] IN
        /\ c.op = "markAsManuallyProcessed"
        /\ c.returned
        /\ \E r \in dlq :
              /\ r.id = c.target
              /\ r.priority = "high"
              /\ r.manuallyProcessed = "true"
        /\ c.target \in dlqProcessed
        /\ \E r \in dlq : r.id # c.target /\ r.id \in dlqJobIds
        /\ GetStats.totalProcessed = 1
        /\ GetStats.totalActive = 1

C23_RetryStep ==
    IsOperatorCall("retryCompensationFailure") =>
        LET c == operator'[Len(operator')]
            key == c.target
            found == {r \in compensationFailures : r.key = key}
            retryable == \E r \in found : r.retryable = "true"
            registered ==
                \E r \in found : RegistryGet(registry, r.stepName).compensate
            compensated ==
                /\ c.invoked
                /\ ~c.raised
                /\ \E r \in found : c.with = r.stepResult
            removed ==
                /\ compensationFailures' = compensationFailures \ found
                /\ compensationIndex' = compensationIndex \ {key}
            ok == found # {} /\ retryable /\ registered /\ compensated
        IN  /\ (c.returned /\ removed) <=> ok
            /\ ~ok => /\ ~c.returned
                       /\ compensationFailures' = compensationFailures
                       /\ compensationIndex' = compensationIndex
            /\ (found = {} \/ ~retryable) => ~c.invoked

\* C23: retryCompensationFailure(key) returns true and removes the record and
\* its index entry exactly when the record exists, is flagged retryable, its
\* step has a registered compensate and that compensate, called with the
\* persisted result, returns; otherwise it returns false and leaves the
\* record and the index as they were, and it calls no compensate for a
\* missing or non-retryable record.
C23_RetryCompensation == [][C23_RetryStep]_vars


\* the quarantine write that created record r
WriteOf(r) ==
    SelectSeq(log[r.originalJobId], LAMBDA e : e.ev = "quarantine")[r.id[2]]

\* the names of the steps below index i that are persisted as completed
CompletedBelow(j, i) ==
    LET done == SelectSeq(SubSeq(Steps(j), 1, i), LAMBDA st : st.status = "completed")
    IN  [n \in 1..Len(done) |-> done[n].name]

\* the executes of attempt a of job j that raised
FailedExecutes(j, a) == SelectSeq(ExecuteEvents(j, a), LAMBDA e : e.threw)

\* in the log of job j every compensate of attempt a precedes the quarantine
\* write of attempt a
CompensatedBeforeQuarantine(j, a) ==
    \A m, n \in 1..Len(log[j]) :
        (/\ log[j][m].ev = "compensate" /\ log[j][m].attempt = a
         /\ log[j][n].ev = "quarantine" /\ log[j][n].attempt = a) => m < n

\* the record of a failure raised while executing step i
C31_StepFailureRecord ==
    \A r \in dlq :
        LET j == r.originalJobId
            a == WriteOf(r).attempt
            fails == FailedExecutes(j, a)
        IN  r.failureReason.kind = "step" =>
                /\ Len(fails) = 1
                /\ r.failedStep = Steps(j)[fails[1].index + 1].name
                /\ r.completedBenefits = CompletedBelow(j, fails[1].index)
                /\ CompensatedBeforeQuarantine(j, a)

\* C31: the record of a failure raised while executing step i is created
\* after compensation has run, names steps[i] as failedStep and lists as
\* completedBenefits exactly the completed steps below i; and the failedStep
\* of every record names a step whose execute was invoked and raised.
C31_RecordContent ==
    /\ C31_StepFailureRecord
    /\ \A r \in dlq :
          \E n \in 1..Len(FailedExecutes(r.originalJobId, WriteOf(r).attempt)) :
              FailedExecutes(r.originalJobId, WriteOf(r).attempt)[n].step = r.failedStep


\* C32: getDLQRetryableJobs() returns exactly the active quarantine records
\* that were added with canRetry = true: none added with canRetry = false,
\* and every active one added with canRetry = true.
C32_RetryableJobs ==
    {item.jobId : item \in GetDLQRetryableJobs} =
        {r.id : r \in {x \in dlq : x.id \in dlqJobIds /\ x.canRetry = ToRedisString(TRUE)}}


\* the message or the name of the error holds a retryable term as written
MatchesRetryableTerm(error) ==
    \E n \in 1..Len(retryableCompensationErrors) :
        \/ Includes(ErrorMessage(error, <<>>), retryableCompensationErrors[n])
        \/ Includes(ErrorName(error), retryableCompensationErrors[n])

\* the message holds a terminal term, whatever the case of its letters
MatchesTerminalTerm(error) ==
    \E n \in 1..Len(nonRetryableCompensationErrors) :
        Includes(ToLowerCase(ErrorMessage(error, <<>>)),
                 ToLowerCase(nonRetryableCompensationErrors[n]))

\* the compensate events of step name of job j that raised
RaisedCompensations(j, name) ==
    SelectSeq(log[j], LAMBDA e : e.ev = "compensate" /\ e.threw /\ e.step = name)

NotCompensated(j, a, e) ==
    /\ e.stepFunction.compensate
    /\ \A m \in 1..Len(CompensateEvents(j, a)) :
            \/ CompensateEvents(j, a)[m].step # e.step
            \/ CompensateEvents(j, a)[m].result # e.result

\* C34: whenever execute of a step raised in an invocation, the invocation
\* ends having invoked compensate for every step of its success trail and
\* throws the error of that step, whatever the outcome of the job-store write
\* that persists the failed status.
C34_CompensationFollowsFailure ==
    \A j \in JobIds :
        LET w == workers[j]
            a == jobs[j].attemptsMade
            fails == FailedExecutes(j, a)
        IN  (w.pc \in {"release", "done"} /\ Len(fails) > 0) =>
                /\ \A n \in 1..Len(w.executionResults) :
                        ~NotCompensated(j, a, w.executionResults[n])
                /\ w.error.kind = "step"
                /\ w.error.step = fails[1].step

\* C35: when execute of step i returned in an invocation that then failed,
\* for any reason, compensate of step i (if it has one) was invoked with the
\* returned result before the invocation ended.
C35_NoExecutedStepEscapes ==
    \A j \in JobIds :
        LET w == workers[j]
            a == jobs[j].attemptsMade
            evs == ExecuteEvents(j, a)
        IN  (w.pc = "done" /\ ~w.succeeded) =>
                \A n \in 1..Len(evs) :
                    ~evs[n].threw =>
                        ~NotCompensated(j, a,
                            [step |-> evs[n].step, result |-> evs[n].result,
                             stepFunction |-> RegistryGet(registry, evs[n].step)])

\* the compensate events of job j, over all its invocations, that were handed
\* the result of execute event e
CompensationsOf(j, e) ==
    SelectSeq(log[j], LAMBDA c : /\ c.ev = "compensate"
                                 /\ c.step = e.step
                                 /\ c.result = e.result)

\* C36: over all the invocations on one job, compensate is invoked at most
\* once for each execute that returned; a step compensated in an earlier
\* invocation is not compensated again.
C36_CompensatedAtMostOnce ==
    \A j \in JobIds :
        \A n \in 1..Len(log[j]) :
            (log[j][n].ev = "execute" /\ ~log[j][n].threw) =>
                Len(CompensationsOf(j, log[j][n])) <= 1

\* a step in which a release or a rollback deletes key k with the id of job j
DeletesKey(j, k) ==
    /\ locks[k] = j /\ locks'[k] = Nil
    /\ expiries' = expiries

\* C37: releaseLock and the rollback of a failed acquireLock delete only keys
\* that the same invocation set, never a key set by another invocation, an
\* invocation of the same job that acquired the key after the first one's
\* lock expired included.
C37_ReleaseScopedStep ==
    \A j \in JobIds, k \in LockKeys :
        DeletesKey(j, k) =>
            IF stalled'[j] # stalled[j]
            THEN /\ k \in Range(stalled[j].acquiredKeys)
                 /\ k \notin Range(workers[j].acquiredKeys)
            ELSE k \in Range(workers[j].acquiredKeys)

C37_ReleaseScoped == [][C37_ReleaseScopedStep]_vars

\* a step of the invocation of job j after a set-if-absent of its acquireLock
\* found the key held
ContendedStep(j) ==
    /\ workers[j].blockedBy # Nil
    /\ workers'[j] # workers[j]
    /\ workers'[j].pc \in {"dlq", "release", "done"}

\* C38: once acquireLock has returned false, process() writes nothing to the
\* job's payload and publishes no progress; the only thing it leaves behind
\* is the quarantine record (the keys it deletes are the ones it had set).
C38_ContentionFrameStep ==
    \A j \in JobIds :
        ContendedStep(j) =>
            /\ jobs'[j].data = jobs[j].data
            /\ jobs'[j].progress = jobs[j].progress
            /\ jobs'[j].attemptsMade = jobs[j].attemptsMade
            /\ \/ log'[j] = log[j]
               \/ /\ Len(log'[j]) = Len(log[j]) + 1
                  /\ SubSeq(log'[j], 1, Len(log[j])) = log[j]
                  /\ log'[j][Len(log'[j])].ev = "quarantine"
            /\ dlq \subseteq dlq'
            /\ \A r \in dlq' \ dlq : r.originalJobId = j
            /\ \A k \in LockKeys :
                    locks'[k] # locks[k] =>
                        /\ k \in Range(workers[j].acquiredKeys)
                        /\ locks'[k] = Nil
            /\ UNCHANGED <<idempotent, compensationFailures, compensationIndex,
                           dlqProcessed, registry>>

C38_ContentionFrame == [][C38_ContentionFrameStep]_vars

\* an invocation that found its second key held by another job has ended:
\* it left a quarantine record, and the payload is as queue.add stored it
C38_Witness ==
    \E j \in JobIds :
        /\ workers[j].pc = "done"
        /\ workers[j].blockedBy \notin {Nil, j}
        /\ Len(workers[j].acquiredKeys) = 1
        /\ \E r \in dlq : r.originalJobId = j /\ r.id \in dlqJobIds
        /\ jobs[j].progress = 0
        /\ jobs[j].data.currentStepIndex = 0
        /\ \A n \in 1..Len(Steps(j)) : Steps(j)[n].status = "pending"

\* the step in which acquireLock of the invocation of job j returns true
AcquireReturnsTrue(j) == ~workers[j].lockAcquired /\ workers'[j].lockAcquired

\* C39: an invocation reaches its step-executing phase only when at least
\* one lock key holds its jobId; acquireLock on an empty resource list does
\* not return true.
C39_HoldsAKeyStep ==
    \A j \in JobIds :
        AcquireReturnsTrue(j) =>
            /\ Len(workers[j].lockKeys) > 0
            /\ \E k \in LockKeys : locks'[k] = j

C39_HoldsAKey == [][C39_HoldsAKeyStep]_vars

\* id is the id of a hash that addToDLQ wrote
CreatedByAdd(id) == \E r \in dlq : r.id = id /\ r.originalJobId # Nil

\* C40: between quarantine operations dlq:high_priority is a subset of
\* dlq:job_ids, dlq:job_ids and dlq:processed are disjoint, and every id in
\* one of the three indices is the id of a record that addToDLQ created.
C40_IndexConsistency ==
    /\ dlqHighPriority \subseteq dlqJobIds
    /\ dlqJobIds \cap dlqProcessed = {}
    /\ \A id \in dlqJobIds \cup dlqHighPriority \cup dlqProcessed : CreatedByAdd(id)

====
